---- MODULE Spec2Model ----
(***************************************************************************)
(* Model of bencode2json: the streaming Bencode -> JSON transducer.        *)
(*                                                                         *)
(* Bytes are the integers 0..255.  An Option<T> is a set with at most one  *)
(* element: None is {} and Some(x) is {x}.  The source (any io::Read) is   *)
(* drawn byte by byte: each time the ByteReader asks it for a byte it      *)
(* delivers a byte, reports end of input, or fails with another I/O error. *)
(* The destination of the output either accepts every write or fails      *)
(* every write; a ByteWriter reaches it through its BufWriter.             *)
(*                                                                         *)
(* One step of the model is one iteration of a loop of the program: the    *)
(* token loop of Generator::parse, the byte loop of integer::parse, the    *)
(* byte loop of Length::parse and the byte loop of Value::parse.  The step *)
(* that completes a token also runs the generator's handling of the token. *)
(***************************************************************************)
EXTENDS Integers, Sequences, FiniteSets, TLC

\* ------------------------------------------------------------------ bounds
\* The source delivers at most MaxInput bytes, then reports end of input.
MaxInput == 7

\* ------------------------------------------------------- program constants
BENCODE_BEGIN_INTEGER == 105
BENCODE_END_INTEGER == 101
BENCODE_BEGIN_LIST == 108
BENCODE_BEGIN_DICT == 100
BENCODE_END_LIST_OR_DICT == 101
END_OF_STRING_LENGTH_BYTE == 58
JSON_ARRAY_BEGIN == 91
JSON_ARRAY_ITEMS_SEPARATOR == 44
JSON_ARRAY_END == 93
JSON_OBJ_BEGIN == 123
JSON_OBJ_FIELDS_SEPARATOR == 44
JSON_OBJ_FIELD_KEY_VALUE_SEPARATOR == 58
JSON_OBJ_END == 125
LINE_BREAK == 10
MINUS_SIGN == 45
ASCII_ZERO == 48
ASCII_NINE == 57
RING_BUFFER_CAPACITY == 1024

\* The bytes the source may deliver: '\n' '-' '0' '1' ':' 'd' 'e' 'i' 'l'
\* and 0xFF (a byte that is never part of valid UTF-8).
Byte == {10, 45, 48, 49, 58, 100, 101, 105, 108, 255}

is_ascii_digit(byte) == byte >= ASCII_ZERO /\ byte <= ASCII_NINE

\* The element of a Some(x).
Unwrap(opt) == CHOOSE x \in opt : TRUE

\* ------------------------------------------------------------ ring buffer
\* AllocRingBuffer::push that drops the new element when the buffer is full.
ring_push_keeps_oldest(buffer, x) ==
    IF Len(buffer) < RING_BUFFER_CAPACITY
    THEN Append(buffer, x)
    ELSE buffer

\* AllocRingBuffer::push: the oldest element is dropped when it is full.
ring_push(buffer, x) ==
    IF Len(buffer) < RING_BUFFER_CAPACITY
    THEN Append(buffer, x)
    ELSE Append(Tail(buffer), x)

\* ------------------------------------------------------------- ByteReader
\* The field reader is the underlying source, modelled by the answer to the
\* latest read_exact: "Open" while every read so far delivered a byte.
ByteReader_new ==
    [reader |-> "Open", input_byte_counter |-> 0, peeked_byte |-> {},
     captured_bytes |-> << >>]

\* The reader handed to Generator::new: a byte slice, whose bytes are known,
\* or any other Read.
VARIABLE source

\* What the underlying source answers to one read_exact of one byte after it
\* delivered position bytes. A byte slice delivers its bytes in order and then
\* reports the end of input; any other Read may deliver a byte, report the end
\* of input or fail.
SourceAt(position) ==
    IF source.slice
    THEN IF position < Len(source.bytes)
         THEN {[kind |-> "Ok", byte |-> source.bytes[position + 1]]}
         ELSE {[kind |-> "UnexpectedEof", byte |-> 0]}
    ELSE {[kind |-> "UnexpectedEof", byte |-> 0], [kind |-> "Other", byte |-> 0]}
           \cup (IF position < MaxInput
                 THEN {[kind |-> "Ok", byte |-> b] : b \in Byte}
                 ELSE {})

\* The answer to the read_exact that ByteReader::read_byte makes when it has
\* no peeked byte: the source stands after the bytes the reader has counted.
SourceResults(reader) == SourceAt(reader.input_byte_counter)

\* ByteReader::read_byte that counts the peeked byte when it hands it over.
read_byte_counts_peeked_byte(reader, src) ==
    IF reader.peeked_byte # {}
    THEN [reader |-> [reader EXCEPT !.peeked_byte = {}, !.input_byte_counter = @ + 1],
          res |-> [kind |-> "Ok", byte |-> Unwrap(reader.peeked_byte)]]
    ELSE IF src.kind = "Ok"
    THEN [reader |-> [reader EXCEPT
                        !.input_byte_counter = @ + 1,
                        !.captured_bytes = ring_push(@, src.byte)],
          res |-> src]
    ELSE [reader |-> [reader EXCEPT !.reader = src.kind], res |-> src]

\* ByteReader::read_byte that asks the source although a byte is peeked.
read_byte_ignores_peeked_byte(reader, src) ==
    IF src.kind = "Ok"
    THEN [reader |-> [reader EXCEPT
                        !.peeked_byte = {},
                        !.input_byte_counter = @ + 1,
                        !.captured_bytes = ring_push(@, src.byte)],
          res |-> src]
    ELSE [reader |-> [reader EXCEPT !.reader = src.kind], res |-> src]

\* ByteReader::read_byte; src is the answer of the source if it is asked.
read_byte(reader, src) ==
    IF reader.peeked_byte # {}
    THEN [reader |-> [reader EXCEPT !.peeked_byte = {}],
          res |-> [kind |-> "Ok", byte |-> Unwrap(reader.peeked_byte)]]
    ELSE IF src.kind = "Ok"
    THEN [reader |-> [reader EXCEPT
                        !.input_byte_counter = @ + 1,
                        !.captured_bytes = ring_push(@, src.byte)],
          res |-> src]
    ELSE [reader |-> [reader EXCEPT !.reader = src.kind], res |-> src]

\* ByteReader::peek_byte that does not keep the byte it read.
peek_byte_forgets(reader, src) == read_byte(reader, src)

\* ByteReader::peek_byte
peek_byte(reader, src) ==
    IF reader.peeked_byte # {}
    THEN [reader |-> reader,
          res |-> [kind |-> "Ok", byte |-> Unwrap(reader.peeked_byte)]]
    ELSE LET r == read_byte(reader, src)
         IN IF r.res.kind = "Ok"
            THEN [reader |-> [r.reader EXCEPT !.peeked_byte = {r.res.byte}],
                  res |-> r.res]
            ELSE r

\* ----------------------------------------------------------------- Writer
\* The destination handed to write_bytes (an io::Write) or to write_str (a
\* fmt::Write): whether its writes fail, the bytes it has received, and
\* whether it has failed a write.
Destination(fails) == [fails |-> fails, received |-> << >>, failed |-> FALSE]

\* The capacity of the BufWriter that BufWriter::new makes.
DEFAULT_BUF_SIZE == 8192

\* BufWriter::new(inner)
BufWriter_new(inner) == [buf |-> << >>, inner |-> inner]

\* BufWriter::flush_buf: the buffered bytes go to the destination; when the
\* destination fails they stay in the buffer and the error is returned.
BufWriter_flush_buf(buf_writer) ==
    IF buf_writer.buf = << >> THEN [writer |-> buf_writer, ok |-> TRUE]
    ELSE IF buf_writer.inner.fails
    THEN [writer |-> [buf_writer EXCEPT !.inner.failed = TRUE], ok |-> FALSE]
    ELSE [writer |-> [buf |-> << >>,
                      inner |-> [buf_writer.inner EXCEPT
                                    !.received = @ \o buf_writer.buf]],
          ok |-> TRUE]

\* BufWriter::write_all(&[byte]): the byte is buffered; a full buffer is
\* flushed first.
BufWriter_write_all(buf_writer, byte) ==
    IF Len(buf_writer.buf) + 1 <= DEFAULT_BUF_SIZE
    THEN [writer |-> [buf_writer EXCEPT !.buf = Append(@, byte)], ok |-> TRUE]
    ELSE LET flushed == BufWriter_flush_buf(buf_writer)
         IN IF flushed.ok
            THEN [writer |-> [flushed.writer EXCEPT !.buf = <<byte>>], ok |-> TRUE]
            ELSE flushed

\* Drop for BufWriter: flush_buf, whose result is ignored.
BufWriter_drop(buf_writer) == BufWriter_flush_buf(buf_writer).writer

\* The Writers.  output is every byte the Writer has passed to self.writer,
\* in order; error is the error of the write that failed, if one did.
\* ByteWriter::new(writer)
ByteWriter_new(destination) ==
    [kind |-> "ByteWriter", writer |-> BufWriter_new(destination),
     output_byte_counter |-> 0, captured_bytes |-> << >>,
     output |-> << >>, error |-> {}]

\* StringWriter::new(writer)
StringWriter_new(destination) ==
    [kind |-> "StringWriter", writer |-> destination,
     output_byte_counter |-> 0, captured_chars |-> << >>,
     output |-> << >>, error |-> {}]

\* The writer of a conversion into a Vec<u8>.
Writer_new == ByteWriter_new(Destination(FALSE))

\* A write returned an error.
Failed(w) == w.error # {}

\* char::encode_utf8
encode_utf8(c) ==
    CASE c < 128 -> <<c>>
      [] c >= 128 /\ c < 2048 -> <<192 + (c \div 64), 128 + (c % 64)>>
      [] c >= 2048 /\ c < 65536 ->
           <<224 + (c \div 4096), 128 + ((c \div 64) % 64), 128 + (c % 64)>>
      [] OTHER ->
           <<240 + (c \div 262144), 128 + ((c \div 4096) % 64),
             128 + ((c \div 64) % 64), 128 + (c % 64)>>

\* str::chars: the scalar values of a text, which is well-formed UTF-8.
RECURSIVE chars(_)
chars(bytes) ==
    IF bytes = << >> THEN << >>
    ELSE LET b == bytes[1]
             rest(n) == SubSeq(bytes, n + 1, Len(bytes))
         IN CASE b < 128 -> <<b>> \o chars(rest(1))
              [] b >= 192 /\ b < 224 ->
                   <<(b - 192) * 64 + (bytes[2] - 128)>> \o chars(rest(2))
              [] b >= 224 /\ b < 240 ->
                   <<(b - 224) * 4096 + (bytes[2] - 128) * 64 + (bytes[3] - 128)>>
                     \o chars(rest(3))
              [] OTHER ->
                   <<(b - 240) * 262144 + (bytes[2] - 128) * 4096
                       + (bytes[3] - 128) * 64 + (bytes[4] - 128)>>
                     \o chars(rest(4))

\* AllocRingBuffer::push of each element of xs.
RECURSIVE ring_extend(_, _)
ring_extend(buffer, xs) ==
    IF xs = << >> THEN buffer
    ELSE ring_extend(ring_push(buffer, Head(xs)), Tail(xs))

\* ByteWriter::write_byte
ByteWriter_write_byte(w, byte) ==
    LET written == BufWriter_write_all(w.writer, byte)
    IN IF ~written.ok
       THEN [w EXCEPT !.writer = written.writer, !.error = {"Io"}]
       ELSE [w EXCEPT !.writer = written.writer,
                      !.output_byte_counter = @ + 1,
                      !.captured_bytes = ring_push(@, byte),
                      !.output = Append(@, byte)]

\* ByteWriter::write_str: one write_byte for each byte of the text, up to the
\* first that fails.
RECURSIVE ByteWriter_write_str(_, _)
ByteWriter_write_str(w, bytes) ==
    IF bytes = << >> \/ Failed(w) THEN w
    ELSE ByteWriter_write_str(ByteWriter_write_byte(w, Head(bytes)), Tail(bytes))

\* StringWriter::write_byte: the byte is written as the char of that value.
StringWriter_write_byte(w, byte) ==
    LET c == byte
    IN IF w.writer.fails THEN [w EXCEPT !.writer.failed = TRUE, !.error = {"Fmt"}]
       ELSE [w EXCEPT !.writer.received = @ \o encode_utf8(c),
                      !.output_byte_counter = @ + 1,
                      !.captured_chars = ring_push(@, c),
                      !.output = @ \o encode_utf8(c)]

\* StringWriter::write_str
StringWriter_write_str(w, bytes) ==
    IF w.writer.fails THEN [w EXCEPT !.writer.failed = TRUE, !.error = {"Fmt"}]
    ELSE [w EXCEPT !.writer.received = @ \o bytes,
                   !.output_byte_counter = @ + Len(bytes),
                   !.captured_chars = ring_extend(@, chars(bytes)),
                   !.output = @ \o bytes]

\* The bytes of the chars, each char encoded as UTF-8 (flat_map keeps the
\* order of the chars; the sequence is encoded half by half).
RECURSIVE encode_each(_)
encode_each(cs) ==
    IF cs = << >> THEN << >>
    ELSE IF Len(cs) = 1 THEN encode_utf8(cs[1])
    ELSE LET half == Len(cs) \div 2
         IN encode_each(SubSeq(cs, 1, half)) \o encode_each(SubSeq(cs, half + 1, Len(cs)))

\* Writer::captured_bytes
captured_bytes(w) ==
    IF w.kind = "ByteWriter" THEN w.captured_bytes ELSE encode_each(w.captured_chars)

\* Writer::write_byte
write_byte(w, byte) ==
    IF w.kind = "ByteWriter"
    THEN ByteWriter_write_byte(w, byte)
    ELSE StringWriter_write_byte(w, byte)

\* Writer::write_str
write_str(w, bytes) ==
    IF w.kind = "ByteWriter"
    THEN ByteWriter_write_str(w, bytes)
    ELSE StringWriter_write_str(w, bytes)

\* for bytes in integer_bytes { writer.write_byte(bytes)? }
RECURSIVE write_each_byte(_, _)
write_each_byte(w, bytes) ==
    IF bytes = << >> \/ Failed(w) THEN w
    ELSE write_each_byte(write_byte(w, Head(bytes)), Tail(bytes))

\* What the destination holds once the conversion has returned.
Delivered(w) ==
    IF w.kind = "ByteWriter" THEN w.writer.inner.received ELSE w.writer.received

\* The Writer goes out of scope and no buffered byte is passed on.
Drop_loses_the_buffer(w) == w

\* The Writer goes out of scope when write_bytes / write_str returns: the
\* BufWriter of a ByteWriter is dropped.
Drop(w) ==
    IF w.kind = "ByteWriter" THEN [w EXCEPT !.writer = BufWriter_drop(@)] ELSE w

\* ------------------------------------------------------------------ errors
\* A ReadContext with the 0-based offset of the latest byte.
ReadContext_zero_based(byte, reader) ==
    [byte |-> byte, pos |-> reader.input_byte_counter - 1,
     latest_bytes |-> reader.captured_bytes]

ReadContext(byte, reader) ==
    [byte |-> byte, pos |-> reader.input_byte_counter,
     latest_bytes |-> reader.captured_bytes]

WriteContext(byte, w) ==
    [byte |-> byte, pos |-> w.output_byte_counter,
     latest_bytes |-> captured_bytes(w)]

\* The outcome of Generator::parse.  kind is "Running" while parse has not
\* returned, "Ok", the name of the Error variant, or the name of a panic
\* ("PanicImmutableInitialState", "PanicEmptyStack").
Outcome(kind, bencode_type, read, write) ==
    [kind |-> kind, bencode_type |-> bencode_type, read |-> read, write |-> write]

Running == Outcome("Running", "None", {}, {})
Ok == Outcome("Ok", "None", {}, {})
Panic(kind) == Outcome(kind, "None", {}, {})
LexicalError(kind, byte, reader) ==
    Outcome(kind, "None", {ReadContext(byte, reader)}, {})
\* A structural error built without the write context.
StructuralError_without_write_context(kind, bencode_type, reader, w) ==
    Outcome(kind, bencode_type, {ReadContext({}, reader)}, {})

StructuralError(kind, bencode_type, reader, w) ==
    Outcome(kind, bencode_type, {ReadContext({}, reader)}, {WriteContext({}, w)})
IoError == Outcome("Io", "None", {}, {})
RwError == Outcome("Rw", "None", {}, {})

\* ------------------------------------------------------------------ Stack
Stack_default == <<"Initial">>

\* Stack::push with a limit on the number of states.
push_up_to_four(states, new_state) ==
    IF Len(states) >= 4 THEN states ELSE Append(states, new_state)

\* Stack::push
push(states, new_state) == Append(states, new_state)

\* Stack::guard_immutable_initial_state: TRUE when the guard returns, FALSE
\* when it panics.
guard_immutable_initial_state(states) ==
    states # << >> /\ states[Len(states)] # "Initial"

\* Stack::pop
pop(states) ==
    IF guard_immutable_initial_state(states)
    THEN [panic |-> FALSE, states |-> SubSeq(states, 1, Len(states) - 1)]
    ELSE [panic |-> TRUE, states |-> states]

\* Stack::swap_top that pushes the new state over the old top.
swap_top_keeps_old_top(states, new_state) ==
    IF guard_immutable_initial_state(states)
    THEN [panic |-> FALSE, states |-> push(states, new_state)]
    ELSE [panic |-> TRUE, states |-> states]

\* Stack::swap_top
swap_top(states, new_state) ==
    IF guard_immutable_initial_state(states)
    THEN [panic |-> FALSE,
          states |-> push(SubSeq(states, 1, Len(states) - 1), new_state)]
    ELSE [panic |-> TRUE, states |-> states]

\* Stack::peek; "empty stack!" stands for the panic.
peek(states) ==
    IF states = << >> THEN "empty stack!" ELSE states[Len(states)]

\* ----------------------------------------------------- JSON string values
TAG_STRING_OPEN == <<60, 115, 116, 114, 105, 110, 103, 62>>
TAG_STRING_CLOSE == <<60, 47, 115, 116, 114, 105, 110, 103, 62>>
TAG_HEX_OPEN == <<60, 104, 101, 120, 62>>
TAG_HEX_CLOSE == <<60, 47, 104, 101, 120, 62>>

is_continuation(bytes, i, lo, hi) ==
    i <= Len(bytes) /\ bytes[i] >= lo /\ bytes[i] <= hi

\* core::str::from_utf8(bytes).is_ok(): the well-formed UTF-8 byte sequences.
RECURSIVE from_utf8_is_ok(_)
from_utf8_is_ok(bytes) ==
    IF bytes = << >> THEN TRUE
    ELSE LET b == bytes[1]
             rest(n) == SubSeq(bytes, n + 1, Len(bytes))
         IN CASE b <= 127 -> from_utf8_is_ok(rest(1))
              [] b >= 194 /\ b <= 223 ->
                   is_continuation(bytes, 2, 128, 191) /\ from_utf8_is_ok(rest(2))
              [] b = 224 ->
                   is_continuation(bytes, 2, 160, 191)
                   /\ is_continuation(bytes, 3, 128, 191) /\ from_utf8_is_ok(rest(3))
              [] (b >= 225 /\ b <= 236) \/ b = 238 \/ b = 239 ->
                   is_continuation(bytes, 2, 128, 191)
                   /\ is_continuation(bytes, 3, 128, 191) /\ from_utf8_is_ok(rest(3))
              [] b = 237 ->
                   is_continuation(bytes, 2, 128, 159)
                   /\ is_continuation(bytes, 3, 128, 191) /\ from_utf8_is_ok(rest(3))
              [] b = 240 ->
                   is_continuation(bytes, 2, 144, 191)
                   /\ is_continuation(bytes, 3, 128, 191)
                   /\ is_continuation(bytes, 4, 128, 191) /\ from_utf8_is_ok(rest(4))
              [] b >= 241 /\ b <= 243 ->
                   is_continuation(bytes, 2, 128, 191)
                   /\ is_continuation(bytes, 3, 128, 191)
                   /\ is_continuation(bytes, 4, 128, 191) /\ from_utf8_is_ok(rest(4))
              [] b = 244 ->
                   is_continuation(bytes, 2, 128, 143)
                   /\ is_continuation(bytes, 3, 128, 191)
                   /\ is_continuation(bytes, 4, 128, 191) /\ from_utf8_is_ok(rest(4))
              [] OTHER -> FALSE

\* The digits of hex::encode_upper.
hex_digit_upper(n) == IF n < 10 THEN ASCII_ZERO + n ELSE 55 + n

\* The digits of hex::encode: '0'..'9', 'a'..'f'.
hex_digit(n) == IF n < 10 THEN ASCII_ZERO + n ELSE 87 + n

\* hex::encode: two lowercase hexadecimal digits per byte.
RECURSIVE hex_encode(_)
hex_encode(bytes) ==
    IF bytes = << >> THEN << >>
    ELSE <<hex_digit(Head(bytes) \div 16), hex_digit(Head(bytes) % 16)>>
           \o hex_encode(Tail(bytes))

\* serde_json's escape of one byte of a str, without the escape of '"'.
json_escape_byte_keeps_quote(b) ==
    CASE b = 92 -> <<92, 92>>
      [] b = 8 -> <<92, 98>>
      [] b = 12 -> <<92, 102>>
      [] b = 10 -> <<92, 110>>
      [] b = 13 -> <<92, 114>>
      [] b = 9 -> <<92, 116>>
      [] b < 32 -> <<92, 117, 48, 48, hex_digit(b \div 16), hex_digit(b % 16)>>
      [] OTHER -> <<b>>

\* serde_json's escape of one byte of a str.
json_escape_byte(b) ==
    CASE b = 34 -> <<92, 34>>
      [] b = 92 -> <<92, 92>>
      [] b = 8 -> <<92, 98>>
      [] b = 12 -> <<92, 102>>
      [] b = 10 -> <<92, 110>>
      [] b = 13 -> <<92, 114>>
      [] b = 9 -> <<92, 116>>
      [] b < 32 -> <<92, 117, 48, 48, hex_digit(b \div 16), hex_digit(b % 16)>>
      [] OTHER -> <<b>>

RECURSIVE json_escape(_)
json_escape(bytes) ==
    IF bytes = << >> THEN << >>
    ELSE json_escape_byte(Head(bytes)) \o json_escape(Tail(bytes))

\* serde_json::to_string(&str): the quoted, escaped literal.
serde_json_to_string(text) == <<34>> \o json_escape(text) \o <<34>>

\* The text for a String token when UTF-8 text is written as it is.
html_tag_style_string_bare_text(string_bytes) ==
    IF from_utf8_is_ok(string_bytes)
    THEN string_bytes
    ELSE TAG_HEX_OPEN \o hex_encode(string_bytes) \o TAG_HEX_CLOSE

\* The text the generator writes for a String token.
html_tag_style_string(string_bytes) ==
    IF from_utf8_is_ok(string_bytes)
    THEN TAG_STRING_OPEN \o string_bytes \o TAG_STRING_CLOSE
    ELSE TAG_HEX_OPEN \o hex_encode(string_bytes) \o TAG_HEX_CLOSE

\* ---------------------------------------------------------------- Generator
\* The value begin_bencoded_value, end_list_or_dict and the arms of parse
\* return: the stack and the writer they leave, and Running for Ok(()) or the
\* error (or panic) that ends parse.
Step(states, w, outcome) ==
    [stack |-> states, writer |-> w,
     result |-> IF Failed(w) THEN RwError ELSE outcome]

\* self.stack.swap_top(new_state) inside the generator.
SwapTop(states, new_state, w) ==
    LET swapped == swap_top(states, new_state)
    IN IF Failed(w) THEN Step(states, w, RwError)
       ELSE Step(swapped.states, w,
                 IF swapped.panic THEN Panic("PanicImmutableInitialState") ELSE Running)

\* self.stack.pop() inside the generator.
Pop(states, w) ==
    LET popped == pop(states)
    IN IF Failed(w) THEN Step(states, w, RwError)
       ELSE Step(popped.states, w,
                 IF popped.panic THEN Panic("PanicImmutableInitialState") ELSE Running)

\* begin_bencoded_value writing the field separator before it checks the kind
\* of a later key.
begin_bencoded_value_separates_rejected_key(states, bencode_type, reader, w) ==
    LET top == peek(states)
    IN CASE top = "Initial" -> Step(states, w, Running)
         [] top = "ExpectingFirstListItemOrEnd" ->
              SwapTop(states, "ExpectingNextListItem", w)
         [] top = "ExpectingNextListItem" ->
              Step(states, write_byte(w, JSON_ARRAY_ITEMS_SEPARATOR), Running)
         [] top = "ExpectingFirstDictFieldOrEnd" ->
              IF bencode_type # "String"
              THEN Step(states, w,
                        StructuralError("ExpectedStringForDictKeyGot",
                                        bencode_type, reader, w))
              ELSE SwapTop(states, "ExpectingDictFieldValue", w)
         [] top = "ExpectingDictFieldValue" ->
              SwapTop(states, "ExpectingDictFieldKeyOrEnd",
                      write_byte(w, JSON_OBJ_FIELD_KEY_VALUE_SEPARATOR))
         [] top = "ExpectingDictFieldKeyOrEnd" ->
              IF bencode_type # "String"
              THEN Step(states, write_byte(w, JSON_OBJ_FIELDS_SEPARATOR),
                        StructuralError("ExpectedStringForDictKeyGot",
                                        bencode_type, reader, w))
              ELSE SwapTop(states, "ExpectingDictFieldValue",
                           write_byte(w, JSON_OBJ_FIELDS_SEPARATOR))
         [] OTHER -> Step(states, w, Panic("PanicEmptyStack"))

\* begin_bencoded_value writing the item separator before the first item of a
\* list too.
begin_bencoded_value_separates_first_item(states, bencode_type, reader, w) ==
    LET top == peek(states)
    IN CASE top = "Initial" -> Step(states, w, Running)
         [] top = "ExpectingFirstListItemOrEnd" ->
              SwapTop(states, "ExpectingNextListItem",
                      write_byte(w, JSON_ARRAY_ITEMS_SEPARATOR))
         [] top = "ExpectingNextListItem" ->
              Step(states, write_byte(w, JSON_ARRAY_ITEMS_SEPARATOR), Running)
         [] top = "ExpectingFirstDictFieldOrEnd" ->
              IF bencode_type # "String"
              THEN Step(states, w,
                        StructuralError("ExpectedStringForDictKeyGot",
                                        bencode_type, reader, w))
              ELSE SwapTop(states, "ExpectingDictFieldValue", w)
         [] top = "ExpectingDictFieldValue" ->
              SwapTop(states, "ExpectingDictFieldKeyOrEnd",
                      write_byte(w, JSON_OBJ_FIELD_KEY_VALUE_SEPARATOR))
         [] top = "ExpectingDictFieldKeyOrEnd" ->
              IF bencode_type # "String"
              THEN Step(states, w,
                        StructuralError("ExpectedStringForDictKeyGot",
                                        bencode_type, reader, w))
              ELSE SwapTop(states, "ExpectingDictFieldValue",
                           write_byte(w, JSON_OBJ_FIELDS_SEPARATOR))
         [] OTHER -> Step(states, w, Panic("PanicEmptyStack"))

\* begin_bencoded_value writing a line break before a top-level value.
begin_bencoded_value_breaks_line_at_top_level(states, bencode_type, reader, w) ==
    LET top == peek(states)
    IN CASE top = "Initial" -> Step(states, write_byte(w, LINE_BREAK), Running)
         [] top = "ExpectingFirstListItemOrEnd" ->
              SwapTop(states, "ExpectingNextListItem", w)
         [] top = "ExpectingNextListItem" ->
              Step(states, write_byte(w, JSON_ARRAY_ITEMS_SEPARATOR), Running)
         [] top = "ExpectingFirstDictFieldOrEnd" ->
              IF bencode_type # "String"
              THEN Step(states, w,
                        StructuralError("ExpectedStringForDictKeyGot",
                                        bencode_type, reader, w))
              ELSE SwapTop(states, "ExpectingDictFieldValue", w)
         [] top = "ExpectingDictFieldValue" ->
              SwapTop(states, "ExpectingDictFieldKeyOrEnd",
                      write_byte(w, JSON_OBJ_FIELD_KEY_VALUE_SEPARATOR))
         [] top = "ExpectingDictFieldKeyOrEnd" ->
              IF bencode_type # "String"
              THEN Step(states, w,
                        StructuralError("ExpectedStringForDictKeyGot",
                                        bencode_type, reader, w))
              ELSE SwapTop(states, "ExpectingDictFieldValue",
                           write_byte(w, JSON_OBJ_FIELDS_SEPARATOR))
         [] OTHER -> Step(states, w, Panic("PanicEmptyStack"))

\* Generator::begin_bencoded_value
begin_bencoded_value(states, bencode_type, reader, w) ==
    LET top == peek(states)
    IN CASE top = "Initial" -> Step(states, w, Running)
         [] top = "ExpectingFirstListItemOrEnd" ->
              SwapTop(states, "ExpectingNextListItem", w)
         [] top = "ExpectingNextListItem" ->
              Step(states, write_byte(w, JSON_ARRAY_ITEMS_SEPARATOR), Running)
         [] top = "ExpectingFirstDictFieldOrEnd" ->
              IF bencode_type # "String"
              THEN Step(states, w,
                        StructuralError("ExpectedStringForDictKeyGot",
                                        bencode_type, reader, w))
              ELSE SwapTop(states, "ExpectingDictFieldValue", w)
         [] top = "ExpectingDictFieldValue" ->
              SwapTop(states, "ExpectingDictFieldKeyOrEnd",
                      write_byte(w, JSON_OBJ_FIELD_KEY_VALUE_SEPARATOR))
         [] top = "ExpectingDictFieldKeyOrEnd" ->
              IF bencode_type # "String"
              THEN Step(states, w,
                        StructuralError("ExpectedStringForDictKeyGot",
                                        bencode_type, reader, w))
              ELSE SwapTop(states, "ExpectingDictFieldValue",
                           write_byte(w, JSON_OBJ_FIELDS_SEPARATOR))
         [] OTHER -> Step(states, w, Panic("PanicEmptyStack"))

\* end_list_or_dict with a stray closer treated as the end of a list.
end_list_or_dict_pops_initial(states, reader, w) ==
    LET top == peek(states)
    IN CASE top \in {"ExpectingFirstListItemOrEnd", "ExpectingNextListItem", "Initial"} ->
              Pop(states, write_byte(w, JSON_ARRAY_END))
         [] top \in {"ExpectingFirstDictFieldOrEnd", "ExpectingDictFieldKeyOrEnd"} ->
              Pop(states, write_byte(w, JSON_OBJ_END))
         [] top = "ExpectingDictFieldValue" ->
              Step(states, w, StructuralError("PrematureEndOfDict", "None", reader, w))
         [] OTHER -> Step(states, w, Panic("PanicEmptyStack"))

\* end_list_or_dict closing the dictionary in every dictionary state.
end_list_or_dict_closes_after_key(states, reader, w) ==
    LET top == peek(states)
    IN CASE top \in {"ExpectingFirstListItemOrEnd", "ExpectingNextListItem"} ->
              Pop(states, write_byte(w, JSON_ARRAY_END))
         [] top \in {"ExpectingFirstDictFieldOrEnd", "ExpectingDictFieldKeyOrEnd",
                     "ExpectingDictFieldValue"} ->
              Pop(states, write_byte(w, JSON_OBJ_END))
         [] top = "Initial" ->
              Step(states, w,
                   StructuralError("NoMatchingStartForListOrDictEnd", "None", reader, w))
         [] OTHER -> Step(states, w, Panic("PanicEmptyStack"))

\* end_list_or_dict ignoring a stray closer.
end_list_or_dict_ignores_stray(states, reader, w) ==
    LET top == peek(states)
    IN CASE top \in {"ExpectingFirstListItemOrEnd", "ExpectingNextListItem"} ->
              Pop(states, write_byte(w, JSON_ARRAY_END))
         [] top \in {"ExpectingFirstDictFieldOrEnd", "ExpectingDictFieldKeyOrEnd"} ->
              Pop(states, write_byte(w, JSON_OBJ_END))
         [] top = "ExpectingDictFieldValue" ->
              Step(states, w, StructuralError("PrematureEndOfDict", "None", reader, w))
         [] top = "Initial" -> Step(states, w, Running)
         [] OTHER -> Step(states, w, Panic("PanicEmptyStack"))

\* end_list_or_dict closing a dictionary with the closer of a list.
end_list_or_dict_closes_with_array_end(states, reader, w) ==
    LET top == peek(states)
    IN CASE top \in {"ExpectingFirstListItemOrEnd", "ExpectingNextListItem",
                     "ExpectingFirstDictFieldOrEnd", "ExpectingDictFieldKeyOrEnd"} ->
              Pop(states, write_byte(w, JSON_ARRAY_END))
         [] top = "ExpectingDictFieldValue" ->
              Step(states, w, StructuralError("PrematureEndOfDict", "None", reader, w))
         [] top = "Initial" ->
              Step(states, w,
                   StructuralError("NoMatchingStartForListOrDictEnd", "None", reader, w))
         [] OTHER -> Step(states, w, Panic("PanicEmptyStack"))

\* Generator::end_list_or_dict
end_list_or_dict(states, reader, w) ==
    LET top == peek(states)
    IN CASE top \in {"ExpectingFirstListItemOrEnd", "ExpectingNextListItem"} ->
              Pop(states, write_byte(w, JSON_ARRAY_END))
         [] top \in {"ExpectingFirstDictFieldOrEnd", "ExpectingDictFieldKeyOrEnd"} ->
              Pop(states, write_byte(w, JSON_OBJ_END))
         [] top = "ExpectingDictFieldValue" ->
              Step(states, w, StructuralError("PrematureEndOfDict", "None", reader, w))
         [] top = "Initial" ->
              Step(states, w,
                   StructuralError("NoMatchingStartForListOrDictEnd", "None", reader, w))
         [] OTHER -> Step(states, w, Panic("PanicEmptyStack"))

\* check_bad_end_stack_state with one error for both states that follow a
\* dictionary field.
check_bad_end_stack_state_merges_dict_states(states, reader, w) ==
    LET top == peek(states)
    IN CASE top = "Initial" -> Ok
         [] top = "ExpectingFirstListItemOrEnd" ->
              StructuralError("UnexpectedEndOfInputExpectingFirstListItemOrEnd",
                              "None", reader, w)
         [] top = "ExpectingNextListItem" ->
              StructuralError("UnexpectedEndOfInputExpectingNextListItem",
                              "None", reader, w)
         [] top = "ExpectingFirstDictFieldOrEnd" ->
              StructuralError("UnexpectedEndOfInputExpectingFirstDictFieldOrEnd",
                              "None", reader, w)
         [] top \in {"ExpectingDictFieldValue", "ExpectingDictFieldKeyOrEnd"} ->
              StructuralError("UnexpectedEndOfInputExpectingDictFieldKeyOrEnd",
                              "None", reader, w)
         [] OTHER -> Panic("PanicEmptyStack")

\* Generator::check_bad_end_stack_state
check_bad_end_stack_state(states, reader, w) ==
    LET top == peek(states)
    IN CASE top = "Initial" -> Ok
         [] top = "ExpectingFirstListItemOrEnd" ->
              StructuralError("UnexpectedEndOfInputExpectingFirstListItemOrEnd",
                              "None", reader, w)
         [] top = "ExpectingNextListItem" ->
              StructuralError("UnexpectedEndOfInputExpectingNextListItem",
                              "None", reader, w)
         [] top = "ExpectingFirstDictFieldOrEnd" ->
              StructuralError("UnexpectedEndOfInputExpectingFirstDictFieldOrEnd",
                              "None", reader, w)
         [] top = "ExpectingDictFieldValue" ->
              StructuralError("UnexpectedEndOfInputExpectingDictFieldValue",
                              "None", reader, w)
         [] top = "ExpectingDictFieldKeyOrEnd" ->
              StructuralError("UnexpectedEndOfInputExpectingDictFieldKeyOrEnd",
                              "None", reader, w)
         [] OTHER -> Panic("PanicEmptyStack")

\* Generator::parse, arm BencodeToken::Integer(integer_bytes)
parse_integer_token(states, reader, w, integer_bytes) ==
    LET begun == begin_bencoded_value(states, "Integer", reader, w)
    IN IF begun.result # Running THEN begun
       ELSE Step(begun.stack, write_each_byte(begun.writer, integer_bytes), Running)

\* The arm for String writing the string before begin_bencoded_value writes
\* the separator.
parse_string_token_writes_first(states, reader, w, string_bytes) ==
    LET written == write_str(w, serde_json_to_string(html_tag_style_string(string_bytes)))
        begun == begin_bencoded_value(states, "String", reader, written)
    IN IF begun.result # Running THEN Step(states, w, begun.result) ELSE begun

\* Generator::parse, arm BencodeToken::String(string_bytes)
parse_string_token(states, reader, w, string_bytes) ==
    LET begun == begin_bencoded_value(states, "String", reader, w)
    IN IF begun.result # Running THEN begun
       ELSE Step(begun.stack,
                 write_str(begun.writer,
                           serde_json_to_string(html_tag_style_string(string_bytes))),
                 Running)

\* The arm BencodeToken::BeginList writing the opener before
\* begin_bencoded_value checks the position.
parse_begin_list_token_opens_first(states, reader, w) ==
    LET begun == begin_bencoded_value(states, "List", reader,
                                      write_byte(w, JSON_ARRAY_BEGIN))
    IN IF begun.result # Running THEN begun
       ELSE Step(push(begun.stack, "ExpectingFirstListItemOrEnd"), begun.writer, Running)

\* Generator::parse, arm BencodeToken::BeginList
parse_begin_list_token(states, reader, w) ==
    LET begun == begin_bencoded_value(states, "List", reader, w)
        written == write_byte(begun.writer, JSON_ARRAY_BEGIN)
    IN IF begun.result # Running THEN begun
       ELSE IF Failed(written) THEN Step(begun.stack, written, RwError)
       ELSE Step(push(begun.stack, "ExpectingFirstListItemOrEnd"), written, Running)

\* Generator::parse, arm BencodeToken::BeginDict
parse_begin_dict_token(states, reader, w) ==
    LET begun == begin_bencoded_value(states, "Dict", reader, w)
        written == write_byte(begun.writer, JSON_OBJ_BEGIN)
    IN IF begun.result # Running THEN begun
       ELSE IF Failed(written) THEN Step(begun.stack, written, RwError)
       ELSE Step(push(begun.stack, "ExpectingFirstDictFieldOrEnd"), written, Running)

\* ------------------------------------------------------------ integer lexer
\* One iteration of the loop of integer::parse after next_byte returned byte.
\* ret is "Continue", "Ok" (the integer is complete) or the Error variant.
IntegerLoop(state, first_digit_is_zero, value, ret) ==
    [state |-> state, first_digit_is_zero |-> first_digit_is_zero,
     value |-> value, ret |-> ret]

\* integer_parse_byte without the push of the sign.
integer_parse_byte_drops_sign(lexer, byte) ==
    CASE lexer.state = "Start" ->
           IntegerLoop("DigitOrSign", lexer.first_digit_is_zero, lexer.value, "Continue")
      [] lexer.state = "DigitOrSign" ->
           IF byte = MINUS_SIGN
           THEN IntegerLoop("DigitAfterSign", lexer.first_digit_is_zero,
                            lexer.value, "Continue")
           ELSE IF is_ascii_digit(byte)
           THEN IntegerLoop("DigitOrEnd",
                            IF byte = ASCII_ZERO THEN TRUE ELSE lexer.first_digit_is_zero,
                            Append(lexer.value, byte), "Continue")
           ELSE IntegerLoop(lexer.state, lexer.first_digit_is_zero, lexer.value,
                            "UnexpectedByteParsingInteger")
      [] lexer.state = "DigitAfterSign" ->
           IF is_ascii_digit(byte)
           THEN IntegerLoop("DigitOrEnd",
                            IF byte = ASCII_ZERO THEN TRUE ELSE lexer.first_digit_is_zero,
                            Append(lexer.value, byte), "Continue")
           ELSE IntegerLoop(lexer.state, lexer.first_digit_is_zero, lexer.value,
                            "UnexpectedByteParsingInteger")
      [] lexer.state = "DigitOrEnd" ->
           IF is_ascii_digit(byte)
           THEN IF byte = ASCII_ZERO /\ lexer.first_digit_is_zero
                THEN IntegerLoop(lexer.state, lexer.first_digit_is_zero,
                                 Append(lexer.value, byte),
                                 "LeadingZerosInIntegersNotAllowed")
                ELSE IntegerLoop("DigitOrEnd", lexer.first_digit_is_zero,
                                 Append(lexer.value, byte), "Continue")
           ELSE IF byte = BENCODE_END_INTEGER
           THEN IntegerLoop(lexer.state, lexer.first_digit_is_zero, lexer.value, "Ok")
           ELSE IntegerLoop(lexer.state, lexer.first_digit_is_zero, lexer.value,
                            "UnexpectedByteParsingInteger")

\* integer_parse_byte taking the terminator right after the sign.
integer_parse_byte_ends_after_sign(lexer, byte) ==
    CASE lexer.state = "Start" ->
           IntegerLoop("DigitOrSign", lexer.first_digit_is_zero, lexer.value, "Continue")
      [] lexer.state = "DigitOrSign" ->
           IF byte = MINUS_SIGN
           THEN IntegerLoop("DigitAfterSign", lexer.first_digit_is_zero,
                            Append(lexer.value, byte), "Continue")
           ELSE IF is_ascii_digit(byte)
           THEN IntegerLoop("DigitOrEnd",
                            IF byte = ASCII_ZERO THEN TRUE ELSE lexer.first_digit_is_zero,
                            Append(lexer.value, byte), "Continue")
           ELSE IntegerLoop(lexer.state, lexer.first_digit_is_zero, lexer.value,
                            "UnexpectedByteParsingInteger")
      [] lexer.state = "DigitAfterSign" ->
           IF is_ascii_digit(byte)
           THEN IntegerLoop("DigitOrEnd",
                            IF byte = ASCII_ZERO THEN TRUE ELSE lexer.first_digit_is_zero,
                            Append(lexer.value, byte), "Continue")
           ELSE IF byte = BENCODE_END_INTEGER
           THEN IntegerLoop(lexer.state, lexer.first_digit_is_zero, lexer.value, "Ok")
           ELSE IntegerLoop(lexer.state, lexer.first_digit_is_zero, lexer.value,
                            "UnexpectedByteParsingInteger")
      [] lexer.state = "DigitOrEnd" ->
           IF is_ascii_digit(byte)
           THEN IF byte = ASCII_ZERO /\ lexer.first_digit_is_zero
                THEN IntegerLoop(lexer.state, lexer.first_digit_is_zero,
                                 Append(lexer.value, byte),
                                 "LeadingZerosInIntegersNotAllowed")
                ELSE IntegerLoop("DigitOrEnd", lexer.first_digit_is_zero,
                                 Append(lexer.value, byte), "Continue")
           ELSE IF byte = BENCODE_END_INTEGER
           THEN IntegerLoop(lexer.state, lexer.first_digit_is_zero, lexer.value, "Ok")
           ELSE IntegerLoop(lexer.state, lexer.first_digit_is_zero, lexer.value,
                            "UnexpectedByteParsingInteger")

\* integer::parse, the match on state.
integer_parse_byte(lexer, byte) ==
    CASE lexer.state = "Start" ->
           IntegerLoop("DigitOrSign", lexer.first_digit_is_zero, lexer.value, "Continue")
      [] lexer.state = "DigitOrSign" ->
           IF byte = MINUS_SIGN
           THEN IntegerLoop("DigitAfterSign", lexer.first_digit_is_zero,
                            Append(lexer.value, byte), "Continue")
           ELSE IF is_ascii_digit(byte)
           THEN IntegerLoop("DigitOrEnd",
                            IF byte = ASCII_ZERO THEN TRUE ELSE lexer.first_digit_is_zero,
                            Append(lexer.value, byte), "Continue")
           ELSE IntegerLoop(lexer.state, lexer.first_digit_is_zero, lexer.value,
                            "UnexpectedByteParsingInteger")
      [] lexer.state = "DigitAfterSign" ->
           IF is_ascii_digit(byte)
           THEN IntegerLoop("DigitOrEnd",
                            IF byte = ASCII_ZERO THEN TRUE ELSE lexer.first_digit_is_zero,
                            Append(lexer.value, byte), "Continue")
           ELSE IntegerLoop(lexer.state, lexer.first_digit_is_zero, lexer.value,
                            "UnexpectedByteParsingInteger")
      [] lexer.state = "DigitOrEnd" ->
           IF is_ascii_digit(byte)
           THEN IF byte = ASCII_ZERO /\ lexer.first_digit_is_zero
                THEN IntegerLoop(lexer.state, lexer.first_digit_is_zero,
                                 Append(lexer.value, byte),
                                 "LeadingZerosInIntegersNotAllowed")
                ELSE IntegerLoop("DigitOrEnd", lexer.first_digit_is_zero,
                                 Append(lexer.value, byte), "Continue")
           ELSE IF byte = BENCODE_END_INTEGER
           THEN IntegerLoop(lexer.state, lexer.first_digit_is_zero, lexer.value, "Ok")
           ELSE IntegerLoop(lexer.state, lexer.first_digit_is_zero, lexer.value,
                            "UnexpectedByteParsingInteger")

\* The locals of integer::parse when it is entered, and while it is not
\* running.
Integer_start == IntegerLoop("Start", FALSE, << >>, "Continue")

\* ------------------------------------------------------------- string lexer
\* A usize has 64 bits (on a 64-bit target).  Its value is kept as four
\* 16-bit limbs, the lowest first, so that every value of the type can be
\* written down.
LimbBase == 65536

\* The usize of the number n, for n below 2^31.
usize_of(n) == <<n % LimbBase, (n \div LimbBase) % LimbBase, 0, 0>>

\* (number * 10) + digit in usize arithmetic: the low 64 bits of the result,
\* and whether the multiplication or the addition overflowed.
usize_mul10_add(number, digit) ==
    LET l1 == (number[1] * 10) + digit
        l2 == (number[2] * 10) + (l1 \div LimbBase)
        l3 == (number[3] * 10) + (l2 \div LimbBase)
        l4 == (number[4] * 10) + (l3 \div LimbBase)
    IN [number |-> <<l1 % LimbBase, l2 % LimbBase, l3 % LimbBase, l4 % LimbBase>>,
        overflow |-> l4 >= LimbBase]

\* Length::default() and Value::new(length), also while they are not in use.
\* wrapped is not a field of Length: it records that the arithmetic of
\* add_digit_to_length overflowed and went on with the low 64 bits, as a
\* build without overflow checks does.
Length_default == [bytes |-> << >>, number |-> usize_of(0), wrapped |-> FALSE]
Value_new(len) == [length |-> len, bytes |-> << >>, bytes_counter |-> 0]

\* Length::byte_to_digit
byte_to_digit(byte) == byte - ASCII_ZERO

\* Length::add_digit_to_length without the shift of the digits read before.
add_digit_to_length_adds_digits(len, digit) ==
    [len EXCEPT !.number = usize_of(len.number[1] + (LimbBase * len.number[2]) + digit)]

\* Length::add_digit_to_length
add_digit_to_length(len, digit) ==
    LET sum == usize_mul10_add(len.number, digit)
    IN [len EXCEPT !.number = sum.number, !.wrapped = @ \/ sum.overflow]

\* Length::add_byte, for a digit
Length_add_byte(len, byte) ==
    add_digit_to_length([len EXCEPT !.bytes = Append(@, byte)], byte_to_digit(byte))

\* Value::add_byte
Value_add_byte(val, byte) ==
    [val EXCEPT !.bytes = Append(@, byte), !.bytes_counter = @ + 1]

\* integer::next_byte without the test for UnexpectedEof.
integer_next_byte_propagates_eof(reader, src) ==
    LET r == read_byte(reader, src)
    IN CASE r.res.kind = "Ok" -> [reader |-> r.reader, byte |-> r.res.byte, err |-> Running]
         [] OTHER -> [reader |-> r.reader, byte |-> 0, err |-> IoError]

\* integer::next_byte
integer_next_byte(reader, src) ==
    LET r == read_byte(reader, src)
    IN CASE r.res.kind = "Ok" -> [reader |-> r.reader, byte |-> r.res.byte, err |-> Running]
         [] r.res.kind = "UnexpectedEof" ->
              [reader |-> r.reader, byte |-> 0,
               err |-> LexicalError("UnexpectedEndOfInputParsingInteger", {}, r.reader)]
         [] OTHER -> [reader |-> r.reader, byte |-> 0, err |-> IoError]

\* Length::next_byte that reports every failure of the source as the end of
\* the input.
Length_next_byte_reports_every_failure(reader, src) ==
    LET r == read_byte(reader, src)
    IN CASE r.res.kind = "Ok" -> [reader |-> r.reader, byte |-> r.res.byte, err |-> Running]
         [] OTHER ->
              [reader |-> r.reader, byte |-> 0,
               err |-> LexicalError("UnexpectedEndOfInputParsingStringLength", {}, r.reader)]

\* Length::next_byte
Length_next_byte(reader, src) ==
    LET r == read_byte(reader, src)
    IN CASE r.res.kind = "Ok" -> [reader |-> r.reader, byte |-> r.res.byte, err |-> Running]
         [] r.res.kind = "UnexpectedEof" ->
              [reader |-> r.reader, byte |-> 0,
               err |-> LexicalError("UnexpectedEndOfInputParsingStringLength", {}, r.reader)]
         [] OTHER -> [reader |-> r.reader, byte |-> 0, err |-> IoError]

\* Value::next_byte with the error of Length::next_byte.
Value_next_byte_reports_length(reader, src) ==
    LET r == read_byte(reader, src)
    IN CASE r.res.kind = "Ok" -> [reader |-> r.reader, byte |-> r.res.byte, err |-> Running]
         [] r.res.kind = "UnexpectedEof" ->
              [reader |-> r.reader, byte |-> 0,
               err |-> LexicalError("UnexpectedEndOfInputParsingStringLength", {}, r.reader)]
         [] OTHER -> [reader |-> r.reader, byte |-> 0, err |-> IoError]

\* Value::next_byte
Value_next_byte(reader, src) ==
    LET r == read_byte(reader, src)
    IN CASE r.res.kind = "Ok" -> [reader |-> r.reader, byte |-> r.res.byte, err |-> Running]
         [] r.res.kind = "UnexpectedEof" ->
              [reader |-> r.reader, byte |-> 0,
               err |-> LexicalError("UnexpectedEndOfInputParsingStringValue", {}, r.reader)]
         [] OTHER -> [reader |-> r.reader, byte |-> 0, err |-> IoError]

\* ---------------------------------------------------------------- Tokenizer
\* Tokenizer::peek_byte without the test for UnexpectedEof.
Tokenizer_peek_byte_propagates_eof(reader, src) ==
    LET r == peek_byte(reader, src)
    IN CASE r.res.kind = "Ok" -> [reader |-> r.reader, byte |-> {r.res.byte}, err |-> Running]
         [] OTHER -> [reader |-> r.reader, byte |-> {}, err |-> IoError]

\* Tokenizer::peek_byte: end of input is Ok(None).
Tokenizer_peek_byte(reader, src) ==
    LET r == peek_byte(reader, src)
    IN CASE r.res.kind = "Ok" -> [reader |-> r.reader, byte |-> {r.res.byte}, err |-> Running]
         [] r.res.kind = "UnexpectedEof" -> [reader |-> r.reader, byte |-> {}, err |-> Running]
         [] OTHER -> [reader |-> r.reader, byte |-> {}, err |-> IoError]

\* Tokenizer::read_peeked_byte that peeks the byte once more and leaves it in
\* the reader.
read_peeked_byte_leaves_the_byte(peeked_byte, reader, src) ==
    LET r == peek_byte(reader, src)
    IN CASE r.res.kind = "Ok" ->
              IF r.res.byte = peeked_byte
              THEN [reader |-> r.reader, byte |-> {r.res.byte}, err |-> Running]
              ELSE [reader |-> r.reader, byte |-> {},
                    err |-> LexicalError("ReadByteAfterPeekingDoesMatchPeekedByte",
                                         {r.res.byte}, r.reader)]
         [] r.res.kind = "UnexpectedEof" -> [reader |-> r.reader, byte |-> {}, err |-> Running]
         [] OTHER -> [reader |-> r.reader, byte |-> {}, err |-> IoError]

\* Tokenizer::read_peeked_byte
read_peeked_byte(peeked_byte, reader, src) ==
    LET r == read_byte(reader, src)
    IN CASE r.res.kind = "Ok" ->
              IF r.res.byte = peeked_byte
              THEN [reader |-> r.reader, byte |-> {r.res.byte}, err |-> Running]
              ELSE [reader |-> r.reader, byte |-> {},
                    err |-> LexicalError("ReadByteAfterPeekingDoesMatchPeekedByte",
                                         {r.res.byte}, r.reader)]
         [] r.res.kind = "UnexpectedEof" -> [reader |-> r.reader, byte |-> {}, err |-> Running]
         [] OTHER -> [reader |-> r.reader, byte |-> {}, err |-> IoError]

\* ------------------------------------------------------------------- state
VARIABLES
    pc,                    \* the loop parse is in: "next_token", "integer",
                           \* "length", "value"; "returned" once parse is over
    byte_reader,           \* Tokenizer.byte_reader
    writer,                \* the Writer that parse writes to
    stack,                 \* Generator.stack.states
    num_processed_tokens,  \* Generator.num_processed_tokens
    integer,               \* the locals of integer::parse
    length,                \* the Length of StringParser::parse
    value,                 \* the Value of StringParser::parse
    result,                \* what parse returned
    previous,              \* what the conversion before this one returned and
                           \* wrote, if the caller made one: an Option
    calls,                 \* the latest call of a caller that uses the
                           \* ByteReader directly, and what it returned
    string_writer          \* the StringWriter of a caller that writes to a
                           \* ByteWriter and a StringWriter alike: an Option

vars == <<source, previous, calls, string_writer, pc, byte_reader, writer, stack, num_processed_tokens,
          integer, length, value, result>>

\* No call was made on the ByteReader from outside the tokenizer.
NoCall == [op |-> "none", res |-> [kind |-> "none", byte |-> 0], reads |-> 0, taken |-> 0]

\* A reader that is not a byte slice: its answers are not determined.
AnyRead == [slice |-> FALSE, bytes |-> << >>]

\* The byte slice bytes as the reader.
Slice(bytes) == [slice |-> TRUE, bytes |-> bytes]

\* Generator::new(reader) followed by the entry of write_bytes / write_str,
\* which makes the Writer w.
Generator_write(reader, w) ==
    /\ source = reader
    /\ previous = {}
    /\ calls = NoCall
    /\ string_writer = {}
    /\ pc = "next_token"
    /\ byte_reader = ByteReader_new
    /\ writer = w
    /\ stack = Stack_default
    /\ num_processed_tokens = 1
    /\ integer = Integer_start
    /\ length = Length_default
    /\ value = Value_new(usize_of(0))
    /\ result = Running

\* Generator::new(reader) followed by write_bytes into a Vec<u8>.
Generator_new(reader) == Generator_write(reader, Writer_new)

\* try_bencode_to_json(input_buffer): Generator::new(input_buffer) followed
\* by write_str into a String.
try_bencode_to_json(input_buffer) ==
    Generator_write(Slice(input_buffer), StringWriter_new(Destination(FALSE)))

Init == Generator_new(AnyRead)

LexersIdle ==
    /\ integer' = Integer_start
    /\ length' = Length_default
    /\ value' = Value_new(usize_of(0))

\* parse returns outcome (an error of the tokenizer, or the final check), and
\* write_bytes / write_str returns it: the Writer is dropped.
Return(outcome, reader) ==
    /\ pc' = "returned"
    /\ result' = outcome
    /\ byte_reader' = reader
    /\ writer' = Drop(writer)
    /\ LexersIdle
    /\ UNCHANGED <<source, previous, calls, string_writer, stack, num_processed_tokens>>

\* The end of one iteration of the loop of parse: the arm for the token left
\* step; an error ends parse and write_bytes / write_str, which drops the
\* Writer; otherwise the token is counted.
EndOfArm(step, reader) ==
    /\ byte_reader' = reader
    /\ writer' = IF step.result = Running THEN step.writer ELSE Drop(step.writer)
    /\ stack' = step.stack
    /\ result' = step.result
    /\ LexersIdle
    /\ UNCHANGED <<source, previous, calls, string_writer>>
    /\ IF step.result = Running
       THEN pc' = "next_token" /\ num_processed_tokens' = num_processed_tokens + 1
       ELSE pc' = "returned" /\ UNCHANGED num_processed_tokens

\* The arm of next_token for a one-byte token, after the peeked byte was
\* re-read: an error of the re-read ends parse, otherwise the arm of parse for
\* the token has left step.
OneByteToken(reread, step) ==
    IF reread.err # Running
    THEN Return(reread.err, reread.reader)
    ELSE EndOfArm(step, reread.reader)

\* ----------------------------------------------------------------- actions
\* next_token peeks end of input, and parse ends the output with a line break.
NextTokenNone_ends_the_line ==
    /\ pc = "next_token"
    /\ \E src \in SourceResults(byte_reader) :
         LET peeked == Tokenizer_peek_byte(byte_reader, src)
         IN /\ peeked.err = Running
            /\ peeked.byte = {}
            /\ pc' = "returned"
            /\ result' = check_bad_end_stack_state(stack, peeked.reader, writer)
            /\ byte_reader' = peeked.reader
            /\ writer' = Drop(write_byte(writer, LINE_BREAK))
            /\ LexersIdle
            /\ UNCHANGED <<source, previous, calls, string_writer, stack, num_processed_tokens>>

\* next_token peeks end of input: Ok(None), the loop of parse ends.
NextTokenNone ==
    /\ pc = "next_token"
    /\ \E src \in SourceResults(byte_reader) :
         LET peeked == Tokenizer_peek_byte(byte_reader, src)
         IN /\ peeked.err = Running
            /\ peeked.byte = {}
            /\ Return(check_bad_end_stack_state(stack, peeked.reader, writer),
                      peeked.reader)

\* next_token fails to peek.
NextTokenIoError ==
    /\ pc = "next_token"
    /\ \E src \in SourceResults(byte_reader) :
         LET peeked == Tokenizer_peek_byte(byte_reader, src)
         IN /\ peeked.err # Running
            /\ Return(peeked.err, peeked.reader)

\* next_token peeks 'i' and enters integer::parse.
NextTokenInteger ==
    /\ pc = "next_token"
    /\ \E src \in SourceResults(byte_reader) :
         LET peeked == Tokenizer_peek_byte(byte_reader, src)
         IN /\ peeked.err = Running
            /\ peeked.byte = {BENCODE_BEGIN_INTEGER}
            /\ pc' = "integer"
            /\ byte_reader' = peeked.reader
            /\ LexersIdle
            /\ UNCHANGED <<source, previous, calls, string_writer, writer, stack, num_processed_tokens, result>>

\* next_token peeks a digit and enters string::parse.
NextTokenString ==
    /\ pc = "next_token"
    /\ \E src \in SourceResults(byte_reader) :
         LET peeked == Tokenizer_peek_byte(byte_reader, src)
         IN /\ peeked.err = Running
            /\ peeked.byte # {}
            /\ is_ascii_digit(Unwrap(peeked.byte))
            /\ pc' = "length"
            /\ byte_reader' = peeked.reader
            /\ LexersIdle
            /\ UNCHANGED <<source, previous, calls, string_writer, writer, stack, num_processed_tokens, result>>

\* next_token peeks 'l': BeginList.
NextTokenBeginList ==
    /\ pc = "next_token"
    /\ \E src \in SourceResults(byte_reader), src2 \in SourceResults(byte_reader) :
         LET peeked == Tokenizer_peek_byte(byte_reader, src)
             reread == read_peeked_byte(BENCODE_BEGIN_LIST, peeked.reader, src2)
         IN /\ peeked.err = Running
            /\ peeked.byte = {BENCODE_BEGIN_LIST}
            /\ OneByteToken(reread, parse_begin_list_token(stack, reread.reader, writer))

\* next_token peeks 'd': BeginDict.
NextTokenBeginDict ==
    /\ pc = "next_token"
    /\ \E src \in SourceResults(byte_reader), src2 \in SourceResults(byte_reader) :
         LET peeked == Tokenizer_peek_byte(byte_reader, src)
             reread == read_peeked_byte(BENCODE_BEGIN_DICT, peeked.reader, src2)
         IN /\ peeked.err = Running
            /\ peeked.byte = {BENCODE_BEGIN_DICT}
            /\ OneByteToken(reread, parse_begin_dict_token(stack, reread.reader, writer))

\* next_token peeks 'e': EndListOrDict.
NextTokenEndListOrDict ==
    /\ pc = "next_token"
    /\ \E src \in SourceResults(byte_reader), src2 \in SourceResults(byte_reader) :
         LET peeked == Tokenizer_peek_byte(byte_reader, src)
             reread == read_peeked_byte(BENCODE_END_LIST_OR_DICT, peeked.reader, src2)
         IN /\ peeked.err = Running
            /\ peeked.byte = {BENCODE_END_LIST_OR_DICT}
            /\ OneByteToken(reread, end_list_or_dict(stack, reread.reader, writer))

\* next_token peeks '\n', and parse begins a value for the LineBreak.
NextTokenLineBreak_begins_value ==
    /\ pc = "next_token"
    /\ \E src \in SourceResults(byte_reader), src2 \in SourceResults(byte_reader) :
         LET peeked == Tokenizer_peek_byte(byte_reader, src)
             reread == read_peeked_byte(LINE_BREAK, peeked.reader, src2)
         IN /\ peeked.err = Running
            /\ peeked.byte = {LINE_BREAK}
            /\ OneByteToken(reread,
                            begin_bencoded_value(stack, "String", reread.reader, writer))

\* next_token peeks '\n': LineBreak, which parse ignores.
NextTokenLineBreak ==
    /\ pc = "next_token"
    /\ \E src \in SourceResults(byte_reader), src2 \in SourceResults(byte_reader) :
         LET peeked == Tokenizer_peek_byte(byte_reader, src)
             reread == read_peeked_byte(LINE_BREAK, peeked.reader, src2)
         IN /\ peeked.err = Running
            /\ peeked.byte = {LINE_BREAK}
            /\ OneByteToken(reread, Step(stack, writer, Running))

\* next_token peeks any other byte and reports the error without it.
NextTokenUnrecognized_without_byte ==
    /\ pc = "next_token"
    /\ \E src \in SourceResults(byte_reader) :
         LET peeked == Tokenizer_peek_byte(byte_reader, src)
         IN /\ peeked.err = Running
            /\ peeked.byte # {}
            /\ Unwrap(peeked.byte) \notin {BENCODE_BEGIN_INTEGER, BENCODE_BEGIN_LIST,
                                           BENCODE_BEGIN_DICT, BENCODE_END_LIST_OR_DICT,
                                           LINE_BREAK}
            /\ ~is_ascii_digit(Unwrap(peeked.byte))
            /\ Return(LexicalError("UnrecognizedFirstBencodeValueByte", {}, peeked.reader),
                      peeked.reader)

\* next_token peeks any other byte.
NextTokenUnrecognized ==
    /\ pc = "next_token"
    /\ \E src \in SourceResults(byte_reader) :
         LET peeked == Tokenizer_peek_byte(byte_reader, src)
         IN /\ peeked.err = Running
            /\ peeked.byte # {}
            /\ Unwrap(peeked.byte) \notin {BENCODE_BEGIN_INTEGER, BENCODE_BEGIN_LIST,
                                           BENCODE_BEGIN_DICT, BENCODE_END_LIST_OR_DICT,
                                           LINE_BREAK}
            /\ ~is_ascii_digit(Unwrap(peeked.byte))
            /\ Return(LexicalError("UnrecognizedFirstBencodeValueByte",
                                   peeked.byte, peeked.reader),
                      peeked.reader)

\* One iteration of the loop of integer::parse; when it returns Ok(value),
\* next_token returns Integer(value) and parse runs its Integer arm.
IntegerParse ==
    /\ pc = "integer"
    /\ \E src \in SourceResults(byte_reader) :
         LET next == integer_next_byte(byte_reader, src)
             loop == integer_parse_byte(integer, next.byte)
         IN IF next.err # Running
            THEN Return(next.err, next.reader)
            ELSE CASE loop.ret = "Continue" ->
                        /\ integer' = loop
                        /\ byte_reader' = next.reader
                        /\ UNCHANGED <<source, previous, calls, string_writer, pc, writer, stack, num_processed_tokens,
                                       length, value, result>>
                   [] loop.ret = "Ok" ->
                        EndOfArm(parse_integer_token(stack, next.reader, writer,
                                                     loop.value),
                                 next.reader)
                   [] OTHER ->
                        Return(LexicalError(loop.ret, {next.byte}, next.reader),
                               next.reader)

\* One iteration of the loop of Length::parse; at ':' the Value is created,
\* and a Value of length 0 is complete at once.  When the arithmetic of
\* add_digit_to_length overflows, a build with overflow checks panics and a
\* build without them goes on with the low 64 bits; a call that went on once
\* was not built with overflow checks.
LengthParse ==
    /\ pc = "length"
    /\ \E src \in SourceResults(byte_reader) :
         LET next == Length_next_byte(byte_reader, src)
         IN IF next.err # Running
            THEN Return(next.err, next.reader)
            ELSE IF next.byte = END_OF_STRING_LENGTH_BYTE
            THEN IF length.number = usize_of(0)
                 THEN EndOfArm(parse_string_token(stack, next.reader, writer, << >>),
                               next.reader)
                 ELSE /\ pc' = "value"
                      /\ value' = Value_new(length.number)
                      /\ byte_reader' = next.reader
                      /\ UNCHANGED <<source, previous, calls, string_writer, writer, stack, num_processed_tokens, integer,
                                     length, result>>
            ELSE IF ~is_ascii_digit(next.byte)
            THEN Return(LexicalError("InvalidStringLengthByte", {next.byte},
                                     next.reader),
                        next.reader)
            ELSE LET added == Length_add_byte(length, next.byte)
                 IN \/ /\ length' = added
                       /\ byte_reader' = next.reader
                       /\ UNCHANGED <<source, previous, calls, string_writer, pc, writer, stack,
                                      num_processed_tokens, integer, value, result>>
                    \/ /\ added.wrapped
                       /\ ~length.wrapped
                       /\ Return(Panic("PanicArithmeticOverflow"), next.reader)

\* One iteration of the loop of Value::parse; after the last byte next_token
\* returns String(bytes) and parse runs its String arm.
ValueParse ==
    /\ pc = "value"
    /\ \E src \in SourceResults(byte_reader) :
         LET next == Value_next_byte(byte_reader, src)
             added == Value_add_byte(value, next.byte)
         IN IF next.err # Running
            THEN Return(next.err, next.reader)
            ELSE IF usize_of(added.bytes_counter) = added.length
            THEN EndOfArm(parse_string_token(stack, next.reader, writer, added.bytes),
                          next.reader)
            ELSE /\ value' = added
                 /\ byte_reader' = next.reader
                 /\ UNCHANGED <<source, previous, calls, string_writer, pc, writer, stack, num_processed_tokens, integer,
                                length, result>>

Next ==
    \/ NextTokenNone
    \/ NextTokenIoError
    \/ NextTokenInteger
    \/ NextTokenString
    \/ NextTokenBeginList
    \/ NextTokenBeginDict
    \/ NextTokenEndListOrDict
    \/ NextTokenLineBreak
    \/ NextTokenUnrecognized
    \/ IntegerParse
    \/ LengthParse
    \/ ValueParse

Spec == Init /\ [][Next]_vars


\* --------------------------------------------------- one string as the input
\* The longest string value drawn.
MaxString == 3

\* The bytes of the string values drawn: a control character without a short
\* escape, '\n', '"', '\', 'f', the two bytes of U+00F1 (0xC3 0xB1), and 0xFF.
StringByte == {1, 10, 34, 92, 102, 177, 195, 255}

\* usize's Display: the decimal digits, without leading zeros.
RECURSIVE to_string(_)
to_string(n) ==
    IF n < 10 THEN <<ASCII_ZERO + n>>
    ELSE to_string(n \div 10) \o <<ASCII_ZERO + (n % 10)>>

\* to_bencode: "{len}:{value}"
to_bencode(string_value) ==
    to_string(Len(string_value)) \o <<END_OF_STRING_LENGTH_BYTE>> \o string_value

\* The string values drawn: every sequence of at most MaxString bytes of
\* StringByte, and the text "<hex>ff</hex>".
StringInputs ==
    UNION {[1..n -> StringByte] : n \in 0..MaxString}
      \cup {TAG_HEX_OPEN \o <<102, 102>> \o TAG_HEX_CLOSE}

\* try_bencode_to_json(&to_bencode(value)): the input is one bencoded string.
InitStrings == \E string_value \in StringInputs : try_bencode_to_json(to_bencode(string_value))

\* The steps of parse that a byte slice holding one string can take.
NextStrings ==
    \/ NextTokenNone
    \/ NextTokenString
    \/ LengthParse
    \/ ValueParse

SpecStrings == InitStrings /\ [][NextStrings]_vars


\* ----------------------------------------------- one dictionary as the input
\* The largest number of fields of the dictionaries drawn.
MaxFields == 3

\* The keys of the dictionaries drawn: "bar" and "foo".
DictKeys == {<<98, 97, 114>>, <<102, 111, 111>>}

\* The field values of the dictionaries drawn: i42e and le.
DictValues == {<<BENCODE_BEGIN_INTEGER, 52, 50, BENCODE_END_INTEGER>>,
               <<BENCODE_BEGIN_LIST, BENCODE_END_LIST_OR_DICT>>}

\* The bencoded fields, each a string key followed by its value.
RECURSIVE bencode_fields(_)
bencode_fields(fields) ==
    IF fields = << >> THEN << >>
    ELSE to_bencode(Head(fields).key) \o Head(fields).value \o bencode_fields(Tail(fields))

\* The bencoded dictionary with the fields in the order given.
bencode_dict(fields) ==
    <<BENCODE_BEGIN_DICT>> \o bencode_fields(fields) \o <<BENCODE_END_LIST_OR_DICT>>

\* The field lists drawn: any keys in any order, repeated or not.
DictInputs ==
    UNION {[1..n -> [key : DictKeys, value : DictValues]] : n \in 0..MaxFields}

InitDicts == \E fields \in DictInputs : try_bencode_to_json(bencode_dict(fields))

\* The steps of parse that a byte slice holding such a dictionary can take.
NextDicts ==
    \/ NextTokenNone
    \/ NextTokenInteger
    \/ NextTokenString
    \/ NextTokenBeginList
    \/ NextTokenBeginDict
    \/ NextTokenEndListOrDict
    \/ IntegerParse
    \/ LengthParse
    \/ ValueParse

SpecDicts == InitDicts /\ [][NextDicts]_vars


\* ------------------------------------------------ nested values as the input
\* The deepest nesting drawn.
MaxDepth == 12

\* A sequence of n copies of byte.
Repeat(byte, n) == [i \in 1..n |-> byte]

\* generate_n_nested_empty_bencoded_lists
generate_n_nested_empty_bencoded_lists(n) ==
    Repeat(BENCODE_BEGIN_LIST, n) \o Repeat(BENCODE_END_LIST_OR_DICT, n)

\* generate_n_nested_empty_json_arrays
generate_n_nested_empty_json_arrays(n) ==
    Repeat(JSON_ARRAY_BEGIN, n) \o Repeat(JSON_ARRAY_END, n)

\* generate_n_nested_empty_bencoded_dictionaries: the field key is 3:foo.
RECURSIVE generate_n_nested_empty_bencoded_dictionaries(_)
generate_n_nested_empty_bencoded_dictionaries(n) ==
    IF n = 0 THEN <<BENCODE_BEGIN_DICT, BENCODE_END_LIST_OR_DICT>>
    ELSE <<BENCODE_BEGIN_DICT>> \o <<51, END_OF_STRING_LENGTH_BYTE, 102, 111, 111>>
           \o generate_n_nested_empty_bencoded_dictionaries(n - 1)
           \o <<BENCODE_END_LIST_OR_DICT>>

\* generate_n_nested_empty_json_objects
RECURSIVE generate_n_nested_empty_json_objects(_)
generate_n_nested_empty_json_objects(n) ==
    IF n = 0 THEN <<JSON_OBJ_BEGIN, JSON_OBJ_END>>
    ELSE <<JSON_OBJ_BEGIN>>
           \o <<34>> \o TAG_STRING_OPEN \o <<102, 111, 111>> \o TAG_STRING_CLOSE \o <<34, 58>>
           \o generate_n_nested_empty_json_objects(n - 1)
           \o <<JSON_OBJ_END>>

\* bencode_to_json_unchecked of n nested empty lists or dictionaries.
InitNested ==
    \E n \in 0..MaxDepth :
      \/ try_bencode_to_json(generate_n_nested_empty_bencoded_lists(n))
      \/ try_bencode_to_json(generate_n_nested_empty_bencoded_dictionaries(n))

\* The steps of parse that a byte slice holding such a value can take.
NextNested ==
    \/ NextTokenNone
    \/ NextTokenString
    \/ NextTokenBeginList
    \/ NextTokenBeginDict
    \/ NextTokenEndListOrDict
    \/ LengthParse
    \/ ValueParse

SpecNested == InitNested /\ [][NextNested]_vars


\* ------------------------------------- the same tokens with line breaks added
\* The largest number of tokens of the inputs drawn.
MaxTokens == 3

\* The largest number of line breaks added to an input.
MaxBreaks == 2

\* The tokens the inputs are made of: i0e, 1:e, 'l', 'd', 'e', and the byte
\* 0xFF, which starts no token.
Tokens == {<<BENCODE_BEGIN_INTEGER, ASCII_ZERO, BENCODE_END_INTEGER>>,
           <<49, END_OF_STRING_LENGTH_BYTE, 101>>,
           <<BENCODE_BEGIN_LIST>>, <<BENCODE_BEGIN_DICT>>,
           <<BENCODE_END_LIST_OR_DICT>>, <<255>>}

TokenLists == UNION {[1..n -> Tokens] : n \in 0..MaxTokens}

RECURSIVE Sum(_)
Sum(numbers) == IF numbers = << >> THEN 0 ELSE Head(numbers) + Sum(Tail(numbers))

\* How many line breaks to put before each of n tokens and after the last.
NoBreaks(n) == [i \in 1..(n + 1) |-> 0]
Breaks(n) == {breaks \in [1..(n + 1) -> 0..MaxBreaks] : Sum(breaks) \in 1..MaxBreaks}

\* The input made of the tokens with the line breaks between them.
RECURSIVE Join(_, _)
Join(tokens, breaks) ==
    Repeat(LINE_BREAK, Head(breaks))
      \o (IF tokens = << >> THEN << >>
          ELSE Head(tokens) \o Join(Tail(tokens), Tail(breaks)))

InitLineBreaks ==
    \E tokens \in TokenLists : try_bencode_to_json(Join(tokens, NoBreaks(Len(tokens))))

\* The caller keeps what the conversion returned and wrote, and converts the
\* same tokens again, now with line breaks between them, with a new Generator
\* and a new output.
ConvertAgain ==
    /\ pc = "returned"
    /\ previous = {}
    /\ \E tokens \in TokenLists :
         /\ source.bytes = Join(tokens, NoBreaks(Len(tokens)))
         /\ \E breaks \in Breaks(Len(tokens)) : source' = Slice(Join(tokens, breaks))
    /\ previous' = {[kind |-> result.kind, output |-> Delivered(writer)]}
    /\ UNCHANGED <<calls, string_writer>>
    /\ pc' = "next_token"
    /\ byte_reader' = ByteReader_new
    /\ writer' = StringWriter_new(Destination(FALSE))
    /\ stack' = Stack_default
    /\ num_processed_tokens' = 1
    /\ LexersIdle
    /\ result' = Running

\* The steps of the two conversions.
NextLineBreaks ==
    \/ NextTokenNone
    \/ NextTokenInteger
    \/ NextTokenString
    \/ NextTokenBeginList
    \/ NextTokenBeginDict
    \/ NextTokenEndListOrDict
    \/ NextTokenLineBreak
    \/ NextTokenUnrecognized
    \/ IntegerParse
    \/ LengthParse
    \/ ValueParse
    \/ ConvertAgain

SpecLineBreaks == InitLineBreaks /\ [][NextLineBreaks]_vars


\* ------------------------------------------------- the ByteReader by itself
\* A caller that owns a ByteReader over a byte slice and calls read_byte and
\* peek_byte in any order (the tests of rw/byte_reader.rs).
MaxSource == 3

\* 'e' and 'l'
SourceByte == {101, 108}

\* An input twice as long as the ring buffer of the captured bytes; the bytes
\* differ from one position to the next.
LongInput == [i \in 1..(2 * RING_BUFFER_CAPACITY) |-> 97 + (i % 26)]

ReaderInputs ==
    UNION {[1..n -> SourceByte] : n \in 0..MaxSource} \cup {LongInput}

InitByteReader ==
    /\ \E input \in ReaderInputs : source = Slice(input)
    /\ previous = {}
    /\ calls = NoCall
    /\ string_writer = {}
    /\ pc = "caller"
    /\ byte_reader = ByteReader_new
    /\ writer = Writer_new
    /\ stack = Stack_default
    /\ num_processed_tokens = 1
    /\ integer = Integer_start
    /\ length = Length_default
    /\ value = Value_new(usize_of(0))
    /\ result = Running

\* The call returned res: it is counted as a read when it is a read_byte that
\* returned a byte, and the source has delivered one more byte when the
\* reader, having no peeked byte, asked it and got one.
Called(op, reader, src, res) ==
    [op |-> op, res |-> res,
     reads |-> calls.reads + (IF op = "read_byte" /\ res.kind = "Ok" THEN 1 ELSE 0),
     taken |-> calls.taken + (IF reader.peeked_byte = {} /\ src.kind = "Ok" THEN 1 ELSE 0)]

\* The caller calls byte_reader.read_byte().
CallReadByte ==
    /\ pc = "caller"
    /\ \E src \in SourceAt(calls.taken) :
         LET r == read_byte(byte_reader, src)
         IN /\ byte_reader' = r.reader
            /\ calls' = Called("read_byte", byte_reader, src, r.res)
    /\ UNCHANGED <<source, previous, string_writer, pc, writer, stack,
                   num_processed_tokens, integer, length, value, result>>

\* The caller calls byte_reader.peek_byte().
CallPeekByte ==
    /\ pc = "caller"
    /\ \E src \in SourceAt(calls.taken) :
         LET r == peek_byte(byte_reader, src)
         IN /\ byte_reader' = r.reader
            /\ calls' = Called("peek_byte", byte_reader, src, r.res)
    /\ UNCHANGED <<source, previous, string_writer, pc, writer, stack,
                   num_processed_tokens, integer, length, value, result>>

NextByteReader ==
    \/ CallReadByte
    \/ CallPeekByte

SpecByteReader == InitByteReader /\ [][NextByteReader]_vars

\* --------------------------------------------------- conversions of slices
\* Every byte slice of up to MaxSlice bytes, and two inputs longer than the
\* ring buffers of the diagnostics: an integer of many digits that ends with
\* a byte that is no digit, and many nested lists that are never closed.
MaxSlice == 4

\* 'i', the digits 1..9 over and over, and 0xFF.
LongInteger ==
    <<BENCODE_BEGIN_INTEGER>>
        \o [i \in 1..(RING_BUFFER_CAPACITY + 9) |-> ASCII_ZERO + 1 + (i % 9)]
        \o <<255>>

OpenLists == Repeat(BENCODE_BEGIN_LIST, RING_BUFFER_CAPACITY + 9)

SliceInputs ==
    UNION {[1..n -> Byte] : n \in 0..MaxSlice} \cup {LongInteger, OpenLists}

InitSlices == \E input \in SliceInputs : Generator_new(Slice(input))

\* A slice never fails: every step of parse but the failed peek.
NextSlices ==
    \/ NextTokenNone
    \/ NextTokenInteger
    \/ NextTokenString
    \/ NextTokenBeginList
    \/ NextTokenBeginDict
    \/ NextTokenEndListOrDict
    \/ NextTokenLineBreak
    \/ NextTokenUnrecognized
    \/ IntegerParse
    \/ LengthParse
    \/ ValueParse

SpecSlices == InitSlices /\ [][NextSlices]_vars

\* ---------------------------------------------------- the Writers by themselves
\* A caller that owns a ByteWriter over a Vec<u8> and a StringWriter over a
\* String and makes the same write_byte and write_str calls on both (the
\* tests of rw/byte_writer.rs and rw/string_writer.rs).  It stops calling
\* once MaxWritten bytes were counted.
MaxWritten == 5

\* 'l' and 0xFF
WriterByte == {108, 255}

\* "le" and the two bytes of U+00F1.
WriterText == {<<108, 101>>, <<195, 177>>}

InitWriters ==
    /\ source = Slice(<< >>)
    /\ previous = {}
    /\ calls = NoCall
    /\ string_writer = {StringWriter_new(Destination(FALSE))}
    /\ pc = "caller"
    /\ byte_reader = ByteReader_new
    /\ writer = ByteWriter_new(Destination(FALSE))
    /\ stack = Stack_default
    /\ num_processed_tokens = 1
    /\ integer = Integer_start
    /\ length = Length_default
    /\ value = Value_new(usize_of(0))
    /\ result = Running

\* The caller calls write_byte(byte) on both writers.
CallWriteByte ==
    /\ pc = "caller"
    /\ writer.output_byte_counter < MaxWritten
    /\ \E byte \in WriterByte :
         /\ writer' = write_byte(writer, byte)
         /\ string_writer' = {write_byte(w, byte) : w \in string_writer}
    /\ UNCHANGED <<source, previous, calls, pc, byte_reader, stack,
                   num_processed_tokens, integer, length, value, result>>

\* The caller calls write_str(text) on both writers.
CallWriteStr ==
    /\ pc = "caller"
    /\ writer.output_byte_counter < MaxWritten
    /\ \E text \in WriterText :
         /\ writer' = write_str(writer, text)
         /\ string_writer' = {write_str(w, text) : w \in string_writer}
    /\ UNCHANGED <<source, previous, calls, pc, byte_reader, stack,
                   num_processed_tokens, integer, length, value, result>>

NextWriters ==
    \/ CallWriteByte
    \/ CallWriteStr

SpecWriters == InitWriters /\ [][NextWriters]_vars

\* ------------------------------------------------ the two kinds of destination
\* Generator::new(input).write_str(&mut String) and then
\* Generator::new(input).write_bytes(&mut Vec<u8>) for the same input: every
\* slice of SliceInputs and every bencoded string of StringInputs.
SinkInputs == SliceInputs \cup {to_bencode(string_value) : string_value \in StringInputs}

InitSinks ==
    \E input \in SinkInputs : try_bencode_to_json(input)

\* The caller keeps the outcome and the String of write_str, and converts the
\* same input again with write_bytes.
ConvertIntoBytes ==
    /\ pc = "returned"
    /\ previous = {}
    /\ previous' = {[kind |-> result.kind, output |-> Delivered(writer)]}
    /\ pc' = "next_token"
    /\ byte_reader' = ByteReader_new
    /\ writer' = ByteWriter_new(Destination(FALSE))
    /\ stack' = Stack_default
    /\ num_processed_tokens' = 1
    /\ LexersIdle
    /\ result' = Running
    /\ UNCHANGED <<source, calls, string_writer>>

NextSinks ==
    \/ NextTokenNone
    \/ NextTokenInteger
    \/ NextTokenString
    \/ NextTokenBeginList
    \/ NextTokenBeginDict
    \/ NextTokenEndListOrDict
    \/ NextTokenLineBreak
    \/ NextTokenUnrecognized
    \/ IntegerParse
    \/ LengthParse
    \/ ValueParse
    \/ ConvertIntoBytes

SpecSinks == InitSinks /\ [][NextSinks]_vars

\* ------------------------------------------------------- a failing destination
\* write_bytes into a destination that accepts every write or fails every
\* write, for every slice of up to MaxSlice bytes and for one input whose
\* output is longer than the buffer of the BufWriter.
FullBuffer == Repeat(BENCODE_BEGIN_LIST, DEFAULT_BUF_SIZE + 1)

InitFailingSink ==
    \E input \in UNION {[1..n -> Byte] : n \in 0..MaxSlice} \cup {FullBuffer} :
       \E fails \in BOOLEAN :
          Generator_write(Slice(input), ByteWriter_new(Destination(fails)))

SpecFailingSink == InitFailingSink /\ [][NextSlices]_vars

\* ------------------------------------------- two calls on one Generator
\* A caller that makes a Generator over a byte slice, calls write_bytes, and
\* when the call has returned (without a panic) calls write_bytes once more on
\* the same Generator with a new Vec<u8>.  write_bytes makes a new ByteWriter
\* and enters parse; the tokenizer, the stack and the token counter are the
\* fields of the Generator and are what the first call left.
WriteAgain ==
    /\ pc = "returned"
    /\ previous = {}
    /\ result.kind \notin {"PanicImmutableInitialState", "PanicEmptyStack"}
    /\ previous' = {[kind |-> result.kind, output |-> Delivered(writer)]}
    /\ pc' = "next_token"
    /\ writer' = ByteWriter_new(Destination(FALSE))
    /\ result' = Running
    /\ LexersIdle
    /\ UNCHANGED <<source, calls, string_writer, byte_reader, stack, num_processed_tokens>>

NextCalls ==
    \/ NextTokenNone
    \/ NextTokenInteger
    \/ NextTokenString
    \/ NextTokenBeginList
    \/ NextTokenBeginDict
    \/ NextTokenEndListOrDict
    \/ NextTokenLineBreak
    \/ NextTokenUnrecognized
    \/ IntegerParse
    \/ LengthParse
    \/ ValueParse
    \/ WriteAgain

SpecCalls == InitSlices /\ [][NextCalls]_vars

\* ------------------------------------- containers around strings of brackets
\* try_bencode_to_json for every byte slice of up to MaxNesting bytes over
\* the bytes of lists, dictionaries, the integer 1 and one-byte strings whose
\* byte is '[', '"' or one of the token bytes.
MaxNesting == 5

\* '"' '1' ':' '[' 'd' 'e' 'i' 'l'
NestingByte == {34, 49, 58, 91, 100, 101, 105, 108}

InitNesting ==
    \E input \in UNION {[1..n -> NestingByte] : n \in 0..MaxNesting} :
       try_bencode_to_json(input)

\* These inputs have no line break, and a slice never fails.
NextNesting ==
    \/ NextTokenNone
    \/ NextTokenInteger
    \/ NextTokenString
    \/ NextTokenBeginList
    \/ NextTokenBeginDict
    \/ NextTokenEndListOrDict
    \/ NextTokenUnrecognized
    \/ IntegerParse
    \/ LengthParse
    \/ ValueParse

SpecNesting == InitNesting /\ [][NextNesting]_vars

\* ------------------------------------------ several values in one input
\* try_bencode_to_json for inputs made of up to MaxValues complete values,
\* one after the other, with up to MaxBreaks line breaks before, between and
\* after them.
MaxValues == 3

\* i0e, i-1e, 1:e, le, de, li0ee and d1:ei0ee
TopLevelValues ==
    {<<BENCODE_BEGIN_INTEGER, ASCII_ZERO, BENCODE_END_INTEGER>>,
     <<BENCODE_BEGIN_INTEGER, MINUS_SIGN, 49, BENCODE_END_INTEGER>>,
     <<49, END_OF_STRING_LENGTH_BYTE, 101>>,
     <<BENCODE_BEGIN_LIST, BENCODE_END_LIST_OR_DICT>>,
     <<BENCODE_BEGIN_DICT, BENCODE_END_LIST_OR_DICT>>,
     <<BENCODE_BEGIN_LIST, BENCODE_BEGIN_INTEGER, ASCII_ZERO, BENCODE_END_INTEGER,
       BENCODE_END_LIST_OR_DICT>>,
     <<BENCODE_BEGIN_DICT, 49, END_OF_STRING_LENGTH_BYTE, 101,
       BENCODE_BEGIN_INTEGER, ASCII_ZERO, BENCODE_END_INTEGER, BENCODE_END_LIST_OR_DICT>>}

ValueLists == UNION {[1..n -> TopLevelValues] : n \in 1..MaxValues}

\* How many line breaks to put before each of n values and after the last.
BreaksAround(n) == {breaks \in [1..(n + 1) -> 0..MaxBreaks] : Sum(breaks) <= MaxBreaks}

InitValues ==
    \E values \in ValueLists :
       \E breaks \in BreaksAround(Len(values)) :
          try_bencode_to_json(Join(values, breaks))

\* These inputs have no byte that starts no token, and a slice never fails.
NextValues ==
    \/ NextTokenNone
    \/ NextTokenInteger
    \/ NextTokenString
    \/ NextTokenBeginList
    \/ NextTokenBeginDict
    \/ NextTokenEndListOrDict
    \/ NextTokenLineBreak
    \/ IntegerParse
    \/ LengthParse
    \/ ValueParse

SpecValues == InitValues /\ [][NextValues]_vars

\* ------------------------------------------- an input and a longer input
\* A caller converts a byte slice of up to MaxSlice bytes with write_bytes,
\* keeps the outcome and the output, and then converts a slice that begins
\* with the same bytes with a new Generator and a new Vec<u8>.
InitPrefixes ==
    \E input \in UNION {[1..n -> Byte] : n \in 0..MaxSlice} : Generator_new(Slice(input))

ConvertLonger ==
    /\ pc = "returned"
    /\ previous = {}
    /\ \E more \in UNION {[1..n -> Byte] : n \in 0..(MaxSlice - Len(source.bytes))} :
         source' = Slice(source.bytes \o more)
    /\ previous' = {[kind |-> result.kind, output |-> Delivered(writer)]}
    /\ pc' = "next_token"
    /\ byte_reader' = ByteReader_new
    /\ writer' = Writer_new
    /\ stack' = Stack_default
    /\ num_processed_tokens' = 1
    /\ LexersIdle
    /\ result' = Running
    /\ UNCHANGED <<calls, string_writer>>

NextPrefixes ==
    \/ NextTokenNone
    \/ NextTokenInteger
    \/ NextTokenString
    \/ NextTokenBeginList
    \/ NextTokenBeginDict
    \/ NextTokenEndListOrDict
    \/ NextTokenLineBreak
    \/ NextTokenUnrecognized
    \/ IntegerParse
    \/ LengthParse
    \/ ValueParse
    \/ ConvertLonger

SpecPrefixes == InitPrefixes /\ [][NextPrefixes]_vars

\* ------------------------------------------- conversions that are not halted
\* The conversions of Spec when the caller's thread keeps running: as long
\* as parse has a next step, it takes it.  The source is finite: it delivers
\* at most MaxInput bytes and then reports the end of input, or fails.
SpecTerminates == Init /\ [][Next]_vars /\ WF_vars(Next)

\* ------------------------------------------------- long length prefixes
\* try_bencode_to_json for strings whose length prefix has up to twenty
\* digits, followed by ':' and up to MaxTail bytes 'e'.
MaxTail == 2

\* The ASCII digits of 2, 00000000000000000002, 18446744073709551615
\* (2^64 - 1), 18446744073709551616 (2^64), 18446744073709551617 and
\* 18446744073709551618
LengthPrefixes ==
    LET digits(numbers) == [i \in DOMAIN numbers |-> ASCII_ZERO + numbers[i]]
    IN {digits(<<2>>),
        digits(<<0,0,0,0,0, 0,0,0,0,0, 0,0,0,0,0, 0,0,0,0,2>>),
        digits(<<1,8,4,4,6, 7,4,4,0,7, 3,7,0,9,5, 5,1,6,1,5>>),
        digits(<<1,8,4,4,6, 7,4,4,0,7, 3,7,0,9,5, 5,1,6,1,6>>),
        digits(<<1,8,4,4,6, 7,4,4,0,7, 3,7,0,9,5, 5,1,6,1,7>>),
        digits(<<1,8,4,4,6, 7,4,4,0,7, 3,7,0,9,5, 5,1,6,1,8>>)}

LengthInputs ==
    {prefix \o <<END_OF_STRING_LENGTH_BYTE>> \o Repeat(BENCODE_END_LIST_OR_DICT, n) :
       prefix \in LengthPrefixes, n \in 0..MaxTail}

InitLengths == \E input \in LengthInputs : try_bencode_to_json(input)

\* These inputs have digits, ':' and 'e' only.
NextLengths ==
    \/ NextTokenNone
    \/ NextTokenString
    \/ NextTokenEndListOrDict
    \/ LengthParse
    \/ ValueParse

SpecLengths == InitLengths /\ [][NextLengths]_vars

\* ================================================================== claims
\* The step passes no byte to the Writer.
WritesNothing ==
    /\ writer'.output = writer.output
    /\ writer'.output_byte_counter = writer.output_byte_counter
    /\ captured_bytes(writer') = captured_bytes(writer)
    /\ writer'.error = writer.error

Last(seq) == seq[Len(seq)]

\* The step takes the byte b from the source.
Consumes(b) ==
    /\ byte_reader'.input_byte_counter = byte_reader.input_byte_counter + 1
    /\ Last(byte_reader'.captured_bytes) = b

\* The step in which next_token classifies the byte b as a one-byte token.
TokenByteArrives(b) == pc = "next_token" /\ Consumes(b)

\* The step in which the source reports end of input.
EndOfInputArrives == byte_reader.reader = "Open" /\ byte_reader'.reader = "UnexpectedEof"

PanicKinds == {"PanicImmutableInitialState", "PanicEmptyStack"}

\* C1: in every state of parse the stack is non-empty, its bottom frame is
\* Initial, Initial occurs nowhere above the bottom, and neither the
\* 'immutable initial state' panic nor the 'empty stack!' panic has happened.
C1_InitialStaysAtTheBottom ==
    /\ Len(stack) >= 1
    /\ stack[1] = "Initial"
    /\ \A i \in 2..Len(stack) : stack[i] # "Initial"
    /\ result.kind \notin PanicKinds

\* Two nested lists were opened and closed again: "llee".
C1_Witness ==
    /\ stack = <<"Initial">>
    /\ writer.output = <<JSON_ARRAY_BEGIN, JSON_ARRAY_BEGIN, JSON_ARRAY_END, JSON_ARRAY_END>>

\* The result the claim C2 assigns to each innermost frame at end of input.
C2_ResultFor(top) ==
    CASE top = "Initial" -> "Ok"
      [] top = "ExpectingFirstListItemOrEnd" ->
           "UnexpectedEndOfInputExpectingFirstListItemOrEnd"
      [] top = "ExpectingNextListItem" -> "UnexpectedEndOfInputExpectingNextListItem"
      [] top = "ExpectingFirstDictFieldOrEnd" ->
           "UnexpectedEndOfInputExpectingFirstDictFieldOrEnd"
      [] top = "ExpectingDictFieldValue" -> "UnexpectedEndOfInputExpectingDictFieldValue"
      [] top = "ExpectingDictFieldKeyOrEnd" ->
           "UnexpectedEndOfInputExpectingDictFieldKeyOrEnd"

\* C2: when the input ends at a token boundary, parse returns Ok if the top of
\* the stack is Initial and otherwise the end-of-input error of the innermost
\* open frame; parse returns Ok in no other case.
C2_EndOfInputErrorNamesInnermostFrame ==
    /\ [][(pc = "next_token" /\ EndOfInputArrives)
            => (pc' = "returned" /\ stack' = stack
                /\ result'.kind = C2_ResultFor(peek(stack)))]_vars
    /\ [](result.kind = "Ok" => peek(stack) = "Initial")

\* "ld0:" and then end of input: a dictionary inside a list, after its key.
C2_Witness ==
    /\ result.kind = "UnexpectedEndOfInputExpectingDictFieldValue"
    /\ stack = <<"Initial", "ExpectingNextListItem", "ExpectingDictFieldValue">>
    /\ byte_reader.reader = "UnexpectedEof"

\* C3: an End token that arrives while the innermost frame is
\* ExpectingDictFieldValue fails with PrematureEndOfDict, writes nothing and
\* leaves the stack unchanged.
C3_EndAfterKeyIsPrematureEndOfDict ==
    [][(TokenByteArrives(BENCODE_END_LIST_OR_DICT) /\ peek(stack) = "ExpectingDictFieldValue")
         => (result'.kind = "PrematureEndOfDict" /\ pc' = "returned"
             /\ WritesNothing /\ stack' = stack)]_vars

\* "d0:e": the key is written, the closer is not.
C3_Witness ==
    /\ result.kind = "PrematureEndOfDict"
    /\ stack = <<"Initial", "ExpectingDictFieldValue">>
    /\ Last(writer.output) \notin {JSON_OBJ_END, JSON_OBJ_FIELD_KEY_VALUE_SEPARATOR}
    /\ Last(byte_reader.captured_bytes) = BENCODE_END_LIST_OR_DICT

\* C4: an End token that arrives while the stack is exactly [Initial] fails
\* with NoMatchingStartForListOrDictEnd and writes nothing.
C4_StrayEndHasNoMatchingStart ==
    [][(TokenByteArrives(BENCODE_END_LIST_OR_DICT) /\ stack = <<"Initial">>)
         => (result'.kind = "NoMatchingStartForListOrDictEnd" /\ pc' = "returned"
             /\ WritesNothing /\ stack' = stack)]_vars

\* "lei0ee": a stray closer after two complete top-level values.
C4_Witness ==
    /\ result.kind = "NoMatchingStartForListOrDictEnd"
    /\ writer.output = <<JSON_ARRAY_BEGIN, JSON_ARRAY_END, ASCII_ZERO>>
    /\ stack = <<"Initial">>


\* The innermost frame is a key position of a dictionary.
KeyPosition ==
    peek(stack) \in {"ExpectingFirstDictFieldOrEnd", "ExpectingDictFieldKeyOrEnd"}

\* The step in which the integer lexer reads the terminating 'e'.
IntegerTokenArrives ==
    pc = "integer" /\ integer.state = "DigitOrEnd" /\ Consumes(BENCODE_END_INTEGER)

\* The step in which the string lexer reads the last byte of a string: the
\* ':' of a string of length 0, or the last value byte.
StringTokenArrives ==
    \/ pc = "length" /\ length.number = usize_of(0) /\ Consumes(END_OF_STRING_LENGTH_BYTE)
    \/ /\ pc = "value"
       /\ usize_of(value.bytes_counter + 1) = value.length
       /\ byte_reader'.input_byte_counter = byte_reader.input_byte_counter + 1

\* The bytes of the string token that arrives in a StringTokenArrives step.
ArrivingStringBytes ==
    IF pc = "length" THEN << >>
    ELSE Append(value.bytes, Last(byte_reader'.captured_bytes))

C5_Rejected(bencode_type) ==
    /\ result'.kind = "ExpectedStringForDictKeyGot"
    /\ result'.bencode_type = bencode_type
    /\ pc' = "returned"
    /\ WritesNothing
    /\ stack' = stack

\* C5: in key position an Integer, a List or a Dict is rejected with
\* ExpectedStringForDictKeyGot carrying its kind, nothing is written and the
\* stack is unchanged; a String is accepted as the key, whether its bytes are
\* valid UTF-8 or not.
C5_OnlyStringsAreDictKeys ==
    [][KeyPosition =>
         /\ TokenByteArrives(BENCODE_BEGIN_LIST) => C5_Rejected("List")
         /\ TokenByteArrives(BENCODE_BEGIN_DICT) => C5_Rejected("Dict")
         /\ IntegerTokenArrives => C5_Rejected("Integer")
         /\ StringTokenArrives =>
              /\ result'.kind = "Running"
              /\ pc' = "next_token"
              /\ stack' = [stack EXCEPT ![Len(stack)] = "ExpectingDictFieldValue"]]_vars

\* "d0:0:l": a list where the second key of a dictionary is expected.
C5_Witness ==
    /\ result.kind = "ExpectedStringForDictKeyGot"
    /\ result.bencode_type = "List"
    /\ stack = <<"Initial", "ExpectingDictFieldKeyOrEnd">>
    /\ Last(writer.output) = 34

\* The separator the claim C6 places before a value that begins now: none at
\* top level, after an opener; ',' between the items of a list and between a
\* value and the next key; ':' between a key and its value.
C6_Separator ==
    CASE peek(stack) = "Initial" -> << >>
      [] peek(stack) \in {"ExpectingFirstListItemOrEnd", "ExpectingNextListItem"} ->
           IF Last(writer.output) = JSON_ARRAY_BEGIN THEN << >> ELSE <<44>>
      [] peek(stack) = "ExpectingDictFieldValue" -> <<58>>
      [] peek(stack) \in {"ExpectingFirstDictFieldOrEnd", "ExpectingDictFieldKeyOrEnd"} ->
           IF Last(writer.output) = JSON_OBJ_BEGIN THEN << >> ELSE <<44>>

\* The step appends the separator and then a value that starts with a byte of
\* first_bytes; only_first: the value is that one byte.
C6_Appends(first_bytes, only_first) ==
    LET before == writer.output
        after == writer'.output
        start == Len(before) + Len(C6_Separator)
    IN /\ Len(after) > start
       /\ SubSeq(after, 1, start) = before \o C6_Separator
       /\ after[start + 1] \in first_bytes
       /\ only_first => Len(after) = start + 1

\* C6: every value that begins without an error is preceded by exactly the
\* separator of its position, written before the first byte of the value; an
\* opener follows its separator directly; a closer is written with no
\* separator before it, ']' for a list and '}' for a dictionary.
C6_PunctuationFollowsThePosition ==
    [][result'.kind = "Running" =>
         /\ TokenByteArrives(BENCODE_BEGIN_LIST) => C6_Appends({JSON_ARRAY_BEGIN}, TRUE)
         /\ TokenByteArrives(BENCODE_BEGIN_DICT) => C6_Appends({JSON_OBJ_BEGIN}, TRUE)
         /\ IntegerTokenArrives => C6_Appends({MINUS_SIGN} \cup ASCII_ZERO..ASCII_NINE, FALSE)
         /\ StringTokenArrives => C6_Appends({34}, FALSE)
         /\ TokenByteArrives(BENCODE_END_LIST_OR_DICT) =>
              writer'.output =
                Append(writer.output,
                       IF peek(stack) \in {"ExpectingFirstListItemOrEnd",
                                           "ExpectingNextListItem"}
                       THEN JSON_ARRAY_END ELSE JSON_OBJ_END)]_vars

\* The literal written for the empty string.
EmptyStringLiteral == serde_json_to_string(html_tag_style_string(<< >>))

\* "l0:0:e": a list of two items.
C6_Witness ==
    /\ writer.output = <<JSON_ARRAY_BEGIN>> \o EmptyStringLiteral \o <<44>>
                         \o EmptyStringLiteral \o <<JSON_ARRAY_END>>
    /\ stack = <<"Initial">>

\* The bytes between the last 'i' read and the byte read last.
IntegerBody(captured) ==
    LET begin == CHOOSE k \in 1..Len(captured) :
                   /\ captured[k] = BENCODE_BEGIN_INTEGER
                   /\ \A j \in (k + 1)..Len(captured) : captured[j] # BENCODE_BEGIN_INTEGER
    IN SubSeq(captured, begin + 1, Len(captured) - 1)

\* C7: for every integer token the lexer accepts, the generator writes (after
\* the separator of its position) exactly the bytes between the 'i' and the
\* 'e', unchanged and in order.
C7_IntegerBytesAreCopied ==
    [][(IntegerTokenArrives /\ result'.kind = "Running")
         => writer'.output = writer.output \o C6_Separator
                               \o IntegerBody(byte_reader'.captured_bytes)]_vars

\* "i-101e"
C7_Witness ==
    /\ byte_reader.captured_bytes = <<BENCODE_BEGIN_INTEGER, MINUS_SIGN, 49, 48, 49,
                                      BENCODE_END_INTEGER>>
    /\ writer.output = <<MINUS_SIGN, 49, 48, 49>>
    /\ result.kind = "Running"


\* The digits after the optional sign.
Magnitude(integer_bytes) ==
    IF integer_bytes # << >> /\ Head(integer_bytes) = MINUS_SIGN
    THEN Tail(integer_bytes)
    ELSE integer_bytes

\* C8: every integer whose magnitude has more than one digit and starts with
\* '0' is rejected with LeadingZerosInIntegersNotAllowed: when the lexer reads
\* the 'e' of such an integer it does not return the integer.
C8_LeadingZerosAreRejected ==
    [][(/\ IntegerTokenArrives
        /\ Len(Magnitude(integer.value)) > 1
        /\ Head(Magnitude(integer.value)) = ASCII_ZERO)
         => result'.kind = "LeadingZerosInIntegersNotAllowed"]_vars

\* The bytes the claim C9 allows in each state of the integer lexer.
C9_Allowed(state, byte) ==
    CASE state = "DigitOrSign" -> byte = MINUS_SIGN \/ is_ascii_digit(byte)
      [] state = "DigitAfterSign" -> is_ascii_digit(byte)
      [] state = "DigitOrEnd" -> is_ascii_digit(byte) \/ byte = BENCODE_END_INTEGER

\* C9: a byte that is not allowed in the current state of the integer lexer
\* yields UnexpectedByteParsingInteger carrying that byte, and an allowed byte
\* does not; '-' right after 'i' is accepted and leads to the state that
\* accepts only a digit; an integer is returned only with a digit in it.
C9_UnexpectedByteInInteger ==
    [][(/\ pc = "integer"
        /\ integer.state # "Start"
        /\ byte_reader'.input_byte_counter = byte_reader.input_byte_counter + 1)
         => LET byte == Last(byte_reader'.captured_bytes)
            IN /\ ~C9_Allowed(integer.state, byte) =>
                    /\ result'.kind = "UnexpectedByteParsingInteger"
                    /\ pc' = "returned"
                    /\ result'.read # {}
                    /\ \A context \in result'.read : context.byte = {byte}
               /\ C9_Allowed(integer.state, byte) =>
                    result'.kind # "UnexpectedByteParsingInteger"
               /\ (integer.state = "DigitOrSign" /\ byte = MINUS_SIGN) =>
                    (pc' = "integer" /\ integer'.state = "DigitAfterSign")
               /\ pc' = "next_token" =>
                    \E i \in 1..Len(integer.value) : is_ascii_digit(integer.value[i])]_vars

\* "i1-": a sign after a digit.
C9_Witness ==
    /\ result.kind = "UnexpectedByteParsingInteger"
    /\ byte_reader.captured_bytes = <<BENCODE_BEGIN_INTEGER, 49, MINUS_SIGN>>
    /\ \A context \in result.read : context.byte = {MINUS_SIGN}

IsSuffix(suffix, seq) ==
    /\ Len(suffix) <= Len(seq)
    /\ SubSeq(seq, Len(seq) - Len(suffix) + 1, Len(seq)) = suffix

\* The number that the decimal digits denote; leading zeros do not count.
RECURSIVE Decimal(_)
Decimal(digits) ==
    IF digits = << >> THEN 0
    ELSE Decimal(SubSeq(digits, 1, Len(digits) - 1)) * 10 + (Last(digits) - ASCII_ZERO)

\* The step in which the string lexer returns its token to parse.
StringLexerReturns == pc \in {"length", "value"} /\ pc' = "next_token"

\* The last n bytes taken from the source.
LatestInput(n) ==
    SubSeq(byte_reader'.captured_bytes, Len(byte_reader'.captured_bytes) - n + 1,
           Len(byte_reader'.captured_bytes))

\* C11: the string lexer returns exactly the len bytes that follow the ':',
\* whatever their values, and consumes exactly the length prefix, the ':' and
\* those bytes: while it reads the prefix the input ends with the digits read
\* so far (the first one peeked), while it reads the value the input ends with
\* prefix, ':' and fewer than len value bytes, and when it returns the input
\* ends with prefix, ':' and len bytes, the literal of exactly those bytes is
\* written and no byte is left peeked. len is the decimal value of the
\* prefix, so leading zeros do not change it.
C11_StringLexerReturnsTheBytesAfterTheColon ==
    /\ [](pc = "length"
            => /\ \A i \in 1..Len(length.bytes) : is_ascii_digit(length.bytes[i])
               /\ length.number = usize_of(Decimal(length.bytes))
               /\ IF byte_reader.peeked_byte # {}
                  THEN /\ length.bytes = << >>
                       /\ Last(byte_reader.captured_bytes) = Unwrap(byte_reader.peeked_byte)
                  ELSE /\ length.bytes # << >>
                       /\ IsSuffix(length.bytes, byte_reader.captured_bytes))
    /\ [](pc = "value"
            => /\ byte_reader.peeked_byte = {}
               /\ Len(value.bytes) < Decimal(length.bytes)
               /\ IsSuffix(length.bytes \o <<END_OF_STRING_LENGTH_BYTE>> \o value.bytes,
                           byte_reader.captured_bytes))
    /\ [][StringLexerReturns
            => LET len == Decimal(length.bytes)
               IN /\ len <= Len(byte_reader'.captured_bytes)
                  /\ IsSuffix(length.bytes \o <<END_OF_STRING_LENGTH_BYTE>>
                                \o LatestInput(len),
                              byte_reader'.captured_bytes)
                  /\ writer'.output
                       = writer.output \o C6_Separator
                           \o serde_json_to_string(html_tag_style_string(LatestInput(len)))
                  /\ byte_reader'.peeked_byte = {}]_vars

\* "01:e": a length with a leading zero and a value byte that is a delimiter.
C11_Witness ==
    /\ byte_reader.captured_bytes = <<ASCII_ZERO, 49, END_OF_STRING_LENGTH_BYTE,
                                      BENCODE_END_LIST_OR_DICT>>
    /\ pc = "next_token"
    /\ writer.output = serde_json_to_string(html_tag_style_string(<<BENCODE_END_LIST_OR_DICT>>))


SourceString ==
    LET colon == CHOOSE i \in 1..Len(source.bytes) :
                   /\ source.bytes[i] = END_OF_STRING_LENGTH_BYTE
                   /\ \A j \in 1..(i - 1) : source.bytes[j] # END_OF_STRING_LENGTH_BYTE
    IN SubSeq(source.bytes, colon + 1, Len(source.bytes))

\* bytes is UTF-8 text: a sequence of characters of one byte (U+0000..U+007F)
\* or of two bytes (U+0080..U+07FF); StringByte has no lead byte of a longer
\* character.
RECURSIVE IsText(_)
IsText(bytes) ==
    \/ bytes = << >>
    \/ Head(bytes) < 128 /\ IsText(Tail(bytes))
    \/ /\ Len(bytes) >= 2
       /\ bytes[1] \in 194..223
       /\ bytes[2] \in 128..191
       /\ IsText(Tail(Tail(bytes)))

\* The value of one hexadecimal digit, of either case; 16 if it is none.
HexValue(digit) ==
    CASE digit \in 48..57 -> digit - 48
      [] digit \in 97..102 -> digit - 87
      [] digit \in 65..70 -> digit - 55
      [] OTHER -> 16

\* escape is a JSON escape sequence for the character c (RFC 8259, section 7).
IsEscapeOf(escape, c) ==
    /\ escape[1] = 92
    /\ \/ /\ Len(escape) = 2
          /\ <<escape[2], c>> \in {<<34, 34>>, <<92, 92>>, <<47, 47>>, <<98, 8>>,
                                   <<102, 12>>, <<110, 10>>, <<114, 13>>, <<116, 9>>}
       \/ /\ Len(escape) = 6
          /\ escape[2] = 117
          /\ \A i \in 3..6 : HexValue(escape[i]) < 16
          /\ HexValue(escape[3]) = 0 /\ HexValue(escape[4]) = 0
          /\ 16 * HexValue(escape[5]) + HexValue(escape[6]) = c

\* body is the inside of a JSON string literal for text in which '"', '\' and
\* the control characters are escaped and every other byte stands for itself.
RECURSIVE Encodes(_, _)
Encodes(body, text) ==
    IF text = << >> THEN body = << >>
    ELSE IF Head(text) = 34 \/ Head(text) = 92 \/ Head(text) < 32
    THEN \E n \in {2, 6} :
           /\ Len(body) >= n
           /\ IsEscapeOf(SubSeq(body, 1, n), Head(text))
           /\ Encodes(SubSeq(body, n + 1, Len(body)), Tail(text))
    ELSE /\ body # << >>
         /\ Head(body) = Head(text)
         /\ Encodes(Tail(body), Tail(text))

\* The bytes between the first and the last byte of a literal.
Inside(literal) == SubSeq(literal, 2, Len(literal) - 1)

LowerHexValue(digit) ==
    CASE digit \in 48..57 -> digit - 48
      [] digit \in 97..102 -> digit - 87
      [] OTHER -> 16

\* digits holds two lowercase hexadecimal digits for each byte of bytes, in
\* the order of the bytes.
IsLowerHexOf(digits, bytes) ==
    /\ Len(digits) = 2 * Len(bytes)
    /\ \A i \in 1..Len(bytes) :
         /\ LowerHexValue(digits[2 * i - 1]) < 16
         /\ LowerHexValue(digits[2 * i]) < 16
         /\ 16 * LowerHexValue(digits[2 * i - 1]) + LowerHexValue(digits[2 * i]) = bytes[i]

\* C14: for a string token whose bytes are not valid UTF-8 the generator
\* writes the JSON string literal "<hex>H</hex>", where H holds two lowercase
\* hexadecimal digits for every byte of the whole value, in order.
C14_OtherBytesAreWrittenAsHex ==
    (writer.output # << >> /\ ~IsText(SourceString))
      => LET start == 1 + Len(TAG_HEX_OPEN)
             end == Len(writer.output) - Len(TAG_HEX_CLOSE) - 1
         IN /\ Len(writer.output) = 2 + Len(TAG_HEX_OPEN) + 2 * Len(SourceString)
                                      + Len(TAG_HEX_CLOSE)
            /\ SubSeq(writer.output, 1, start) = <<34>> \o TAG_HEX_OPEN
            /\ IsLowerHexOf(SubSeq(writer.output, start + 1, end), SourceString)
            /\ SubSeq(writer.output, end + 1, Len(writer.output)) = TAG_HEX_CLOSE \o <<34>>

\* The input is 3:f\xFF\n: only the second byte is not UTF-8, all three are
\* written as hexadecimal digits.
C14_Witness ==
    /\ source.bytes = to_bencode(<<102, 255, 10>>)
    /\ writer.output = <<34>> \o TAG_HEX_OPEN \o <<54, 54, 102, 102, 48, 97>>
                         \o TAG_HEX_CLOSE \o <<34>>
    /\ result.kind = "Ok"


HasPrefix(seq, prefix) ==
    Len(prefix) <= Len(seq) /\ SubSeq(seq, 1, Len(prefix)) = prefix

\* The text that the inside of a JSON string literal stands for.
RECURSIVE JsonUnescape(_)
JsonUnescape(body) ==
    IF body = << >> THEN << >>
    ELSE IF Head(body) # 92
    THEN <<Head(body)>> \o JsonUnescape(Tail(body))
    ELSE IF body[2] = 117
    THEN <<16 * HexValue(body[5]) + HexValue(body[6])>>
           \o JsonUnescape(SubSeq(body, 7, Len(body)))
    ELSE <<CASE body[2] = 98 -> 8
             [] body[2] = 102 -> 12
             [] body[2] = 110 -> 10
             [] body[2] = 114 -> 13
             [] body[2] = 116 -> 9
             [] OTHER -> body[2]>>
           \o JsonUnescape(SubSeq(body, 3, Len(body)))

\* The bytes that pairs of hexadecimal digits stand for.
RECURSIVE HexDecode(_)
HexDecode(digits) ==
    IF Len(digits) < 2 THEN << >>
    ELSE <<16 * HexValue(digits[1]) + HexValue(digits[2])>>
           \o HexDecode(SubSeq(digits, 3, Len(digits)))

\* The bytes of the string token, computed from nothing but the literal
\* written for it: the tag the text starts with tells how to read the rest.
DecodeLiteral(literal) ==
    LET text == JsonUnescape(Inside(literal))
    IN IF HasPrefix(text, TAG_HEX_OPEN)
       THEN HexDecode(SubSeq(text, Len(TAG_HEX_OPEN) + 1, Len(text) - Len(TAG_HEX_CLOSE)))
       ELSE SubSeq(text, Len(TAG_STRING_OPEN) + 1, Len(text) - Len(TAG_STRING_CLOSE))

\* C15: the bytes of a string token can be computed back from the literal
\* written for it, so two tokens with different bytes never get the same
\* literal; the literal of UTF-8 text starts with <string> and the literal of
\* other bytes with <hex>, whatever the text looks like.
C15_LiteralDeterminesTheBytes ==
    writer.output # << >>
      => /\ DecodeLiteral(writer.output) = SourceString
         /\ HasPrefix(Inside(writer.output),
                      IF IsText(SourceString) THEN TAG_STRING_OPEN ELSE TAG_HEX_OPEN)

\* The input is 13:<hex>ff</hex>: text that looks like the literal of 0xFF.
C15_Witness ==
    /\ SourceString = TAG_HEX_OPEN \o <<102, 102>> \o TAG_HEX_CLOSE
    /\ writer.output = <<34>> \o TAG_STRING_OPEN \o SourceString \o TAG_STRING_CLOSE
                         \o <<34>>
    /\ result.kind = "Ok"


\* The JSON of a field value of DictValues.
JsonOfValue(bencoded) ==
    IF Head(bencoded) = BENCODE_BEGIN_INTEGER
    THEN SubSeq(bencoded, 2, Len(bencoded) - 1)
    ELSE <<JSON_ARRAY_BEGIN, JSON_ARRAY_END>>

\* The JSON members for the fields, in the order of the fields.
RECURSIVE JsonMembers(_)
JsonMembers(fields) ==
    IF fields = << >> THEN << >>
    ELSE <<34>> \o TAG_STRING_OPEN \o Head(fields).key \o TAG_STRING_CLOSE \o <<34>>
           \o <<JSON_OBJ_FIELD_KEY_VALUE_SEPARATOR>> \o JsonOfValue(Head(fields).value)
           \o (IF Len(fields) = 1 THEN << >> ELSE <<JSON_OBJ_FIELDS_SEPARATOR>>)
           \o JsonMembers(Tail(fields))

\* C16: the fields of a dictionary are written in the order of the input,
\* each one once: whatever the keys (unsorted, repeated), the output grows as
\* a prefix of the object with the members in input order, and it is that
\* object when parse returns.
C16_FieldsKeepInputOrder ==
    \A fields \in DictInputs :
      source.bytes = bencode_dict(fields)
        => LET object == <<JSON_OBJ_BEGIN>> \o JsonMembers(fields) \o <<JSON_OBJ_END>>
           IN /\ HasPrefix(object, writer.output)
              /\ pc = "returned" => (result.kind = "Ok" /\ writer.output = object)

\* d3:fooi42e3:barle3:fooi42ee: the keys are not sorted and foo is repeated.
C16_Witness ==
    /\ source.bytes = bencode_dict(<<[key |-> <<102, 111, 111>>, value |-> <<105, 52, 50, 101>>],
                                     [key |-> <<98, 97, 114>>, value |-> <<108, 101>>],
                                     [key |-> <<102, 111, 111>>, value |-> <<105, 52, 50, 101>>]>>)
    /\ result.kind = "Ok"
    /\ Len(writer.output) = 79
    /\ Last(writer.output) = JSON_OBJ_END


\* C17: n nested empty lists are converted to n nested empty arrays, and n
\* nested dictionaries with the key 3:foo around an empty dictionary to the
\* nested objects, for every n: no depth of nesting is rejected.
C17_NestingOfAnyDepthIsConverted ==
    /\ result.kind \in {"Running", "Ok"}
    /\ \A n \in 0..MaxDepth :
         /\ (source.bytes = generate_n_nested_empty_bencoded_lists(n) /\ pc = "returned")
              => (/\ result.kind = "Ok"
                  /\ writer.output = generate_n_nested_empty_json_arrays(n))
         /\ (source.bytes = generate_n_nested_empty_bencoded_dictionaries(n)
             /\ pc = "returned")
              => (/\ result.kind = "Ok"
                  /\ writer.output = generate_n_nested_empty_json_objects(n))

\* The innermost of the deepest nested dictionaries is open.
C17_Witness ==
    /\ source.bytes = generate_n_nested_empty_bencoded_dictionaries(MaxDepth)
    /\ Len(stack) = MaxDepth + 2
    /\ peek(stack) = "ExpectingFirstDictFieldOrEnd"


\* C18: line breaks added at token boundaries (before the first token, after
\* the last, between any two) change nothing: the conversion of the input
\* with the line breaks returns what the conversion of the input without
\* them returned, Ok or the same error variant, and has written the same
\* bytes.
C18_LineBreaksChangeNothing ==
    (pc = "returned" /\ previous # {})
      => \A before \in previous :
           /\ result.kind = before.kind
           /\ writer.output = before.output

\* "\nli0e\ne" after "li0ee": line breaks before the first token and inside
\* the list.
C18_Witness ==
    /\ source.bytes = <<LINE_BREAK, BENCODE_BEGIN_LIST, BENCODE_BEGIN_INTEGER, ASCII_ZERO,
                        BENCODE_END_INTEGER, LINE_BREAK, BENCODE_END_LIST_OR_DICT>>
    /\ previous = {[kind |-> "Ok", output |-> <<JSON_ARRAY_BEGIN, ASCII_ZERO, JSON_ARRAY_END>>]}
    /\ result.kind = "Ok"


C20_EndOfInputIsTheNormalEnd ==
    /\ [][(pc = "next_token" /\ EndOfInputArrives)
            => /\ pc' = "returned"
               /\ WritesNothing
               /\ result'.kind # "Io"
               /\ stack = <<"Initial">> => result'.kind = "Ok"
               /\ LET again == Tokenizer_peek_byte(byte_reader',
                                                   [kind |-> "UnexpectedEof", byte |-> 0])
                  IN /\ again.err = Running
                     /\ again.byte = {}
                     /\ again.reader = byte_reader']_vars
    /\ []((/\ pc = "returned"
           /\ byte_reader.reader = "UnexpectedEof"
           /\ \A i \in 1..Len(byte_reader.captured_bytes) :
                byte_reader.captured_bytes[i] = LINE_BREAK)
            => (result.kind = "Ok" /\ writer.output = << >>))

\* Two line breaks and then the end of input.
C20_Witness ==
    /\ byte_reader.captured_bytes = <<LINE_BREAK, LINE_BREAK>>
    /\ byte_reader.reader = "UnexpectedEof"
    /\ result.kind = "Ok"
    /\ writer.output = << >>


\* ---------------------------------------------------------------------------
\* The steps in which the source fails with an error other than end of input.
SourceFails == byte_reader.reader = "Open" /\ byte_reader'.reader = "Other"

\* The errors that report the end of the input or a malformed input.
EndOfInputOrFormatErrors ==
    {"UnexpectedEndOfInputParsingInteger", "UnexpectedEndOfInputParsingStringLength",
     "UnexpectedEndOfInputParsingStringValue", "UnexpectedByteParsingInteger",
     "LeadingZerosInIntegersNotAllowed", "InvalidStringLengthByte",
     "UnrecognizedFirstBencodeValueByte", "ReadByteAfterPeekingDoesMatchPeekedByte",
     "UnexpectedEndOfInputExpectingFirstListItemOrEnd",
     "UnexpectedEndOfInputExpectingNextListItem",
     "UnexpectedEndOfInputExpectingFirstDictFieldOrEnd",
     "UnexpectedEndOfInputExpectingDictFieldValue",
     "UnexpectedEndOfInputExpectingDictFieldKeyOrEnd",
     "PrematureEndOfDict", "ExpectedStringForDictKeyGot",
     "NoMatchingStartForListOrDictEnd"}

\* C21: a failure of the source other than the end of the input makes parse
\* return Error::Io in the same step, whether parse was peeking for the next
\* token, inside an integer, inside a string length or inside a string value;
\* parse returns Error::Io for no other reason, and a conversion whose source
\* failed never ends with Ok nor with an end-of-input or format error.
C21_SourceFailureIsIoError ==
    /\ [][SourceFails => pc' = "returned" /\ result' = IoError]_vars
    /\ [](pc \in {"next_token", "integer", "length", "value"}
            => byte_reader.reader = "Open")
    /\ [](result.kind = "Io" <=> byte_reader.reader = "Other")
    /\ [](byte_reader.reader = "Other"
            => result.kind \notin EndOfInputOrFormatErrors \cup {"Ok", "Running"})

\* The source delivered "1:" and then failed inside the string value; the
\* list around the string stays open.
C21_Witness ==
    /\ result = IoError
    /\ byte_reader.captured_bytes = <<BENCODE_BEGIN_LIST, 49, END_OF_STRING_LENGTH_BYTE>>
    /\ writer.output = <<JSON_ARRAY_BEGIN>>


\* ---------------------------------------------------------------------------
\* C23: an error is terminal and rolls nothing back. Only a step that completes
\* a token and goes on to the next one writes, so the token that parse was
\* reading when it returned a lexical or structural error has contributed no
\* byte; the step that returns the error leaves the writer as it was; the
\* output is only ever extended; and no step follows the return.
C23_ErrorsWriteNothing ==
    /\ [][pc' # "next_token" => WritesNothing]_vars
    /\ [][result.kind = "Running" /\ result'.kind \in EndOfInputOrFormatErrors
            => pc' = "returned" /\ WritesNothing]_vars
    /\ [][HasPrefix(writer'.output, writer.output)]_vars
    /\ [][pc # "returned"]_vars

\* "li1ei-e": the second integer of the list is malformed; the output holds
\* the opener and the first integer, and no separator for the second.
C23_Witness ==
    /\ result.kind = "UnexpectedByteParsingInteger"
    /\ writer.output = <<JSON_ARRAY_BEGIN, 49>>
    /\ byte_reader.input_byte_counter = 6


\* ---------------------------------------------------------------------------
LexicalErrors ==
    {"UnrecognizedFirstBencodeValueByte", "UnexpectedByteParsingInteger",
     "UnexpectedEndOfInputParsingInteger", "LeadingZerosInIntegersNotAllowed",
     "InvalidStringLengthByte", "UnexpectedEndOfInputParsingStringLength",
     "UnexpectedEndOfInputParsingStringValue",
     "ReadByteAfterPeekingDoesMatchPeekedByte"}

StructuralErrors == EndOfInputOrFormatErrors \ LexicalErrors

\* The error carries the read position with the recent input bytes.
CarriesReadContext ==
    \E context \in result.read :
       /\ result.read = {context}
       /\ context.pos = byte_reader.input_byte_counter
       /\ context.latest_bytes = byte_reader.captured_bytes

\* The error carries the write position with the recent output bytes.
CarriesWriteContext ==
    \E context \in result.write :
       /\ result.write = {context}
       /\ context.pos = writer.output_byte_counter
       /\ context.latest_bytes = captured_bytes(writer)

\* C24 as stated: every lexical and every structural error carries the read
\* context and the write context.
C24_EveryErrorCarriesBothContexts ==
    result.kind \in LexicalErrors \cup StructuralErrors
        => CarriesReadContext /\ CarriesWriteContext

\* C24, amended: every lexical and every structural error carries the read
\* context; the structural errors carry the write context too, the lexical
\* errors carry no write context, and Error::Io carries neither.
C24_StructuralErrorsCarryBothContexts ==
    /\ result.kind \in LexicalErrors \cup StructuralErrors => CarriesReadContext
    /\ result.kind \in StructuralErrors => CarriesWriteContext
    /\ result.kind \in LexicalErrors => result.write = {}
    /\ result.kind = "Io" => result.read = {} /\ result.write = {}

\* "li1e" and the end of the input: a structural error after three bytes of
\* output.
C24_Witness ==
    /\ result.kind = "UnexpectedEndOfInputExpectingNextListItem"
    /\ writer.output = <<JSON_ARRAY_BEGIN, 49>>
    /\ CarriesReadContext /\ CarriesWriteContext

\* "li1e" and a byte that begins no value: a lexical error, which has the
\* read context only although two bytes were written.
C24_LexicalWitness ==
    /\ result.kind = "UnrecognizedFirstBencodeValueByte"
    /\ writer.output = <<JSON_ARRAY_BEGIN, 49>>
    /\ CarriesReadContext /\ result.write = {}


\* ---------------------------------------------------------------------------
\* The latest call returned a byte.
Returned(call, op) == call.op = op /\ call.res.kind = "Ok"

\* C26: under every interleaving of read_byte and peek_byte, the n-th
\* successful read_byte returns the n-th byte of the source, and read_byte
\* reports the end of the input only after it delivered every byte; peek_byte
\* returns the byte that the next read_byte returns, and a peek_byte right
\* after a peek_byte returns the same byte.
C26_ReadsDeliverTheSourceInOrder ==
    /\ [][Returned(calls', "read_byte")
            => /\ calls'.reads = calls.reads + 1
               /\ calls'.reads <= Len(source.bytes)
               /\ calls'.res.byte = source.bytes[calls'.reads]]_vars
    /\ [][calls'.op = "read_byte" /\ calls'.res.kind # "Ok"
            => calls'.res.kind = "UnexpectedEof" /\ calls.reads = Len(source.bytes)]_vars
    /\ [][Returned(calls', "peek_byte")
            => /\ calls'.reads = calls.reads
               /\ calls.reads < Len(source.bytes)
               /\ calls'.res.byte = source.bytes[calls.reads + 1]]_vars
    /\ [][Returned(calls, "peek_byte") /\ calls'.op \in {"read_byte", "peek_byte"}
            => calls'.res = calls.res]_vars

\* A read_byte that returned the third byte of "lel" after a peek_byte had
\* looked at it.
C26_Witness ==
    /\ source.bytes = <<108, 101, 108>>
    /\ Returned(calls, "read_byte")
    /\ calls.reads = 3
    /\ calls.res.byte = 108
    /\ byte_reader.peeked_byte = {}


\* ---------------------------------------------------------------------------
\* C27 as stated: the byte counter does not include a byte that was peeked and
\* not yet read; it counts the bytes that read_byte has returned, so that
\* peek_byte never advances it and every successful read_byte does.
C27_PeekedByteIsNotCounted ==
    /\ [](byte_reader.input_byte_counter = calls.reads)
    /\ [][calls'.op = "peek_byte"
            => byte_reader'.input_byte_counter = byte_reader.input_byte_counter]_vars
    /\ [][Returned(calls', "read_byte")
            => byte_reader'.input_byte_counter = byte_reader.input_byte_counter + 1]_vars

\* C27, amended: a peeked byte is buffered and already counted. The counter
\* is the number of bytes that read_byte has returned plus one while a byte
\* is in the peek slot: the peek_byte that fills the slot advances it, and
\* neither the read_byte that empties the slot nor a peek_byte that finds the
\* slot full does.
C27_PeekedByteIsAlreadyCounted ==
    /\ [](byte_reader.input_byte_counter
            = calls.reads + Cardinality(byte_reader.peeked_byte))
    /\ [][Returned(calls', "peek_byte") /\ byte_reader.peeked_byte = {}
            => /\ byte_reader'.peeked_byte = {calls'.res.byte}
               /\ byte_reader'.input_byte_counter = byte_reader.input_byte_counter + 1]_vars
    /\ [][Returned(calls', "read_byte") /\ byte_reader.peeked_byte # {}
            => /\ byte_reader'.peeked_byte = {}
               /\ byte_reader'.input_byte_counter = byte_reader.input_byte_counter]_vars
    /\ [][calls'.op = "peek_byte" /\ byte_reader.peeked_byte # {}
            => byte_reader' = byte_reader]_vars

\* "le": the first byte was read, the second is peeked and counted.
C27_Witness ==
    /\ source.bytes = <<108, 101>>
    /\ Returned(calls, "peek_byte")
    /\ calls.reads = 1
    /\ byte_reader.peeked_byte = {101}
    /\ byte_reader.input_byte_counter = 2

\* ---------------------------------------------------------------------------
\* The last n elements of seq, oldest first.
LastOf(seq, n) == SubSeq(seq, Len(seq) - n + 1, Len(seq))

Min(a, b) == IF a <= b THEN a ELSE b

\* C28: input_byte_counter never decreases; it is the number of bytes obtained
\* from the source, and it advances by one in exactly the calls that obtain a
\* byte, the first peek_byte of a byte included; a repeated peek_byte and the
\* read_byte that takes the peeked byte leave it unchanged; captured_bytes()
\* is the last min(counter, 1024) bytes obtained, oldest first.
C28_CounterCountsTheBytesObtained ==
    /\ [][byte_reader'.input_byte_counter >= byte_reader.input_byte_counter]_vars
    /\ [](byte_reader.input_byte_counter = calls.taken)
    /\ [][byte_reader'.input_byte_counter - byte_reader.input_byte_counter
            = calls'.taken - calls.taken]_vars
    /\ [][byte_reader.peeked_byte = {} /\ calls'.res.kind = "Ok"
            => byte_reader'.input_byte_counter = byte_reader.input_byte_counter + 1]_vars
    /\ [][byte_reader.peeked_byte # {} \/ calls'.res.kind # "Ok"
            => byte_reader'.input_byte_counter = byte_reader.input_byte_counter]_vars
    /\ [](byte_reader.captured_bytes
            = LastOf(SubSeq(source.bytes, 1, calls.taken),
                     Min(byte_reader.input_byte_counter, RING_BUFFER_CAPACITY)))

\* The ring buffer is full and has dropped a byte: the 1025th byte was
\* obtained by a peek_byte.
C28_Witness ==
    /\ byte_reader.input_byte_counter = RING_BUFFER_CAPACITY + 1
    /\ Returned(calls, "peek_byte")
    /\ byte_reader.peeked_byte # {}
    /\ Len(byte_reader.captured_bytes) = RING_BUFFER_CAPACITY
    /\ Head(byte_reader.captured_bytes) = source.bytes[2]


\* ---------------------------------------------------------------------------
\* C25: in the ReadContext of every error, pos is the number of bytes taken
\* from the input so far and latest_bytes is the last min(pos, 1024) of them,
\* in the order of the input; when the context names a byte, the byte is the
\* one at the 1-based offset pos of the input, and latest_bytes ends with it.
C25_ReadPositionsAreExact ==
    \A context \in result.read :
       /\ context.pos = byte_reader.input_byte_counter
       /\ context.pos <= Len(source.bytes)
       /\ context.latest_bytes
            = LastOf(SubSeq(source.bytes, 1, context.pos),
                     Min(context.pos, RING_BUFFER_CAPACITY))
       /\ \A b \in context.byte :
             /\ context.pos >= 1
             /\ source.bytes[context.pos] = b
             /\ Last(context.latest_bytes) = b

\* The long integer: the error names the byte 0xFF at offset 1035, and the
\* latest bytes are the 1024 bytes up to it, without the first eleven.
C25_Witness ==
    /\ source.bytes = LongInteger
    /\ result.kind = "UnexpectedByteParsingInteger"
    /\ \E context \in result.read :
          /\ context.byte = {255}
          /\ context.pos = RING_BUFFER_CAPACITY + 11
          /\ Len(context.latest_bytes) = RING_BUFFER_CAPACITY
          /\ Head(context.latest_bytes) = source.bytes[12]


\* ---------------------------------------------------------------------------
\* C30: after the same calls, the ByteWriter and the StringWriter report the
\* same output_byte_counter() and the same captured_bytes(), which are the
\* last min(n, 1024) of the n bytes written.
C30_WritersReportTheSameDiagnostics ==
    \A text_writer \in string_writer :
       /\ text_writer.output_byte_counter = writer.output_byte_counter
       /\ captured_bytes(text_writer) = captured_bytes(writer)
       /\ captured_bytes(writer)
            = LastOf(writer.output, Min(Len(writer.output), RING_BUFFER_CAPACITY))


\* ---------------------------------------------------------------------------
\* C22 as stated: whenever a write to the destination of write_bytes has
\* failed, write_bytes returns an error, whatever the size of the output.
C22_SinkFailureIsReturned ==
    (pc = "returned" /\ writer.writer.inner.failed) => result.kind # "Ok"

\* ---------------------------------------------------------------------------
\* C29: for the same input, write_bytes into a Vec<u8> returns what write_str
\* into a String returned (Ok, the same error variant or the same panic) and
\* leaves in the Vec<u8> the bytes that write_str left in the String.
C29_BothSinksGetTheSame ==
    (pc = "returned" /\ previous # {})
        => /\ writer.kind = "ByteWriter"
           /\ \A text \in previous :
                 /\ text.kind = result.kind
                 /\ text.output = Delivered(writer)
                 /\ text.output = writer.output

\* The bencoded string of the two bytes of U+00F1: both conversions return
\* Ok and deliver the same 21 bytes, the text between its tags and quotes.
C29_Witness ==
    /\ pc = "returned"
    /\ source.bytes = to_bencode(<<195, 177>>)
    /\ result.kind = "Ok"
    /\ previous = {[kind |-> "Ok", output |-> Delivered(writer)]}
    /\ Len(Delivered(writer)) = 21


\* The bytes that next_token turns into a token by reading the peeked byte
\* again.
OneByteTokens ==
    {BENCODE_BEGIN_LIST, BENCODE_BEGIN_DICT, BENCODE_END_LIST_OR_DICT, LINE_BREAK}

\* C31: the internal-consistency error is unreachable. Whenever next_token
\* has peeked 'l', 'd', 'e' or a line break, read_peeked_byte returns that
\* very byte whatever the source would answer to a further read (a byte, end
\* of input or a failure): it neither reports
\* ReadByteAfterPeekingDoesMatchPeekedByte nor sees end of input nor fails,
\* and it does not ask the source; hence no conversion returns the error.
C31_RereadReturnsThePeekedByte ==
    /\ result.kind # "ReadByteAfterPeekingDoesMatchPeekedByte"
    /\ pc = "next_token" =>
         \A src \in SourceResults(byte_reader) :
           LET peeked == Tokenizer_peek_byte(byte_reader, src)
           IN (peeked.err = Running /\ peeked.byte # {}
                 /\ Unwrap(peeked.byte) \in OneByteTokens) =>
                \A src2 \in SourceResults(peeked.reader)
                              \cup {[kind |-> "UnexpectedEof", byte |-> 0],
                                    [kind |-> "Other", byte |-> 0]} :
                  LET reread == read_peeked_byte(Unwrap(peeked.byte), peeked.reader, src2)
                  IN /\ reread.err = Running
                     /\ reread.byte = peeked.byte
                     /\ reread.reader = [peeked.reader EXCEPT !.peeked_byte = {}]

\* "d" then a line break then "e": three one-byte tokens were peeked and
\* read again, and the source has no peeked byte left.
C31_Witness ==
    /\ pc = "next_token"
    /\ byte_reader.captured_bytes = <<BENCODE_BEGIN_DICT, LINE_BREAK, BENCODE_END_LIST_OR_DICT>>
    /\ byte_reader.peeked_byte = {}
    /\ byte_reader.input_byte_counter = 3
    /\ stack = <<"Initial">>
    /\ result = Running


\* C32: every call of write_str or write_bytes on a Generator starts parse
\* with the stack [Initial], also when the call before it on the same
\* Generator returned an error while lists or dictionaries were open.
C32_EveryCallStartsFromAFreshStack ==
    [][(pc = "returned" /\ pc' = "next_token") => stack' = Stack_default]_vars

\* "li:e": the first call stopped at ':' with the list open; the second call
\* took 'e' for the end of that list, wrote "]" and returned Ok.
C32_SecondCallClosesTheListOfTheFirst ==
    /\ source.bytes = <<BENCODE_BEGIN_LIST, BENCODE_BEGIN_INTEGER, END_OF_STRING_LENGTH_BYTE,
                       BENCODE_END_LIST_OR_DICT>>
    /\ previous # {}
    /\ pc = "returned"
    /\ result = Ok
    /\ Delivered(writer) = <<JSON_ARRAY_END>>


ListStates == {"ExpectingFirstListItemOrEnd", "ExpectingNextListItem"}

DictStates ==
    {"ExpectingFirstDictFieldOrEnd", "ExpectingDictFieldValue", "ExpectingDictFieldKeyOrEnd"}

JsonOpeners == {JSON_ARRAY_BEGIN, JSON_OBJ_BEGIN}

JsonClosers == {JSON_ARRAY_END, JSON_OBJ_END}

\* The structural openers and closers of the JSON text json, in order: the
\* brackets and braces outside its string literals (in a literal, a backslash
\* escapes the byte after it and an unescaped '"' ends the literal).
RECURSIVE StructuralBytes(_, _)
StructuralBytes(json, in_string) ==
    IF json = << >> THEN << >>
    ELSE LET b == Head(json)
         IN IF in_string
            THEN IF b = 92 /\ Len(json) >= 2
                 THEN StructuralBytes(Tail(Tail(json)), TRUE)
                 ELSE StructuralBytes(Tail(json), b # 34)
            ELSE IF b = 34
            THEN StructuralBytes(Tail(json), TRUE)
            ELSE (IF b \in JsonOpeners \cup JsonClosers THEN <<b>> ELSE << >>)
                     \o StructuralBytes(Tail(json), FALSE)

\* The openers of structure that no later closer has closed, outermost first.
RECURSIVE Unclosed(_)
Unclosed(structure) ==
    IF structure = << >> THEN << >>
    ELSE LET before == Unclosed(SubSeq(structure, 1, Len(structure) - 1))
             b == structure[Len(structure)]
         IN IF b \in JsonOpeners THEN Append(before, b)
            ELSE IF before = << >> THEN << >>
            ELSE SubSeq(before, 1, Len(before) - 1)

CountOf(seq, bytes) == Cardinality({i \in DOMAIN seq : seq[i] \in bytes})

\* The containers that the output written so far leaves open.
OpenContainers == Unclosed(StructuralBytes(writer.output, FALSE))

\* The bytes the step passes to the Writer.
Written == SubSeq(writer'.output, Len(writer.output) + 1, Len(writer'.output))

\* In every state of a conversion the stack has one frame above Initial for
\* each structural opener written and not yet closed, a list frame for '['
\* and a dictionary frame for '{', in the order of the openers.
StackMirrorsOpenContainers ==
    LET structure == StructuralBytes(writer.output, FALSE)
    IN /\ Len(stack) = 1 + CountOf(structure, JsonOpeners) - CountOf(structure, JsonClosers)
       /\ Len(OpenContainers) = Len(stack) - 1
       /\ \A i \in 1..Len(OpenContainers) :
            /\ OpenContainers[i] = JSON_ARRAY_BEGIN <=> stack[i + 1] \in ListStates
            /\ OpenContainers[i] = JSON_OBJ_BEGIN <=> stack[i + 1] \in DictStates

FrameAfterValue(state) ==
    CASE state = "ExpectingFirstListItemOrEnd" -> "ExpectingNextListItem"
      [] state = "ExpectingFirstDictFieldOrEnd" -> "ExpectingDictFieldValue"
      [] state = "ExpectingDictFieldValue" -> "ExpectingDictFieldKeyOrEnd"
      [] state = "ExpectingDictFieldKeyOrEnd" -> "ExpectingDictFieldValue"
      [] OTHER -> state

\* The step in which parse accepts the token of a value: an integer, a
\* string, the begin of a list or the begin of a dictionary.
ValueIsAccepted ==
    /\ \/ IntegerTokenArrives
       \/ StringTokenArrives
       \/ TokenByteArrives(BENCODE_BEGIN_LIST)
       \/ TokenByteArrives(BENCODE_BEGIN_DICT)
    /\ result' = Running

\* C34: every frame above the bottom keeps its container kind and only the
\* top frame changes. In every step the frames below the top stay as they
\* are; the top is at most popped, or advanced and possibly covered by the
\* first-state frame of a new container. A frame advances exactly when a
\* value is accepted in it: a list frame from ExpectingFirstListItemOrEnd to
\* ExpectingNextListItem, where it stays; a dictionary frame from
\* ExpectingFirstDictFieldOrEnd to ExpectingDictFieldValue and then to and
\* fro between ExpectingDictFieldKeyOrEnd and ExpectingDictFieldValue; never
\* back to a first state and never to a state of the other kind.
C34_FramesKeepTheirKind ==
    [][LET n == Len(stack)
       IN /\ Len(stack') \in {n - 1, n, n + 1}
          /\ \A i \in 1..(n - 1) : stack'[i] = stack[i]
          /\ Len(stack') = n + 1 =>
               /\ stack'[n + 1] \in {"ExpectingFirstListItemOrEnd",
                                     "ExpectingFirstDictFieldOrEnd"}
               /\ stack'[n + 1] = "ExpectingFirstListItemOrEnd"
                    <=> TokenByteArrives(BENCODE_BEGIN_LIST)
               /\ stack'[n + 1] = "ExpectingFirstDictFieldOrEnd"
                    <=> TokenByteArrives(BENCODE_BEGIN_DICT)
          /\ ValueIsAccepted =>
               /\ Len(stack') >= n
               /\ stack'[n] = FrameAfterValue(stack[n])
          /\ ~ValueIsAccepted =>
               /\ Len(stack') <= n
               /\ Len(stack') = n => stack' = stack]_vars

\* "d0:0:0:": the frame of the dictionary went from
\* ExpectingFirstDictFieldOrEnd to ExpectingDictFieldValue (first key), to
\* ExpectingDictFieldKeyOrEnd (its value) and back to ExpectingDictFieldValue
\* (second key).
C34_Witness ==
    /\ byte_reader.captured_bytes
         = <<BENCODE_BEGIN_DICT, ASCII_ZERO, END_OF_STRING_LENGTH_BYTE,
             ASCII_ZERO, END_OF_STRING_LENGTH_BYTE, ASCII_ZERO, END_OF_STRING_LENGTH_BYTE>>
    /\ stack = <<"Initial", "ExpectingDictFieldValue">>
    /\ CountOf(writer.output, {JSON_OBJ_FIELD_KEY_VALUE_SEPARATOR}) = 1
    /\ CountOf(writer.output, {JSON_OBJ_FIELDS_SEPARATOR}) = 1


\* The JSON of each value of TopLevelValues.
JsonOfTopLevelValue(bencoded) ==
    LET key == <<34>> \o TAG_STRING_OPEN \o <<101>> \o TAG_STRING_CLOSE \o <<34>>
    IN CASE bencoded = <<BENCODE_BEGIN_INTEGER, ASCII_ZERO, BENCODE_END_INTEGER>> -> <<ASCII_ZERO>>
         [] bencoded = <<BENCODE_BEGIN_INTEGER, MINUS_SIGN, 49, BENCODE_END_INTEGER>> ->
              <<MINUS_SIGN, 49>>
         [] bencoded = <<49, END_OF_STRING_LENGTH_BYTE, 101>> -> key
         [] bencoded = <<BENCODE_BEGIN_LIST, BENCODE_END_LIST_OR_DICT>> ->
              <<JSON_ARRAY_BEGIN, JSON_ARRAY_END>>
         [] bencoded = <<BENCODE_BEGIN_DICT, BENCODE_END_LIST_OR_DICT>> ->
              <<JSON_OBJ_BEGIN, JSON_OBJ_END>>
         [] bencoded = <<BENCODE_BEGIN_LIST, BENCODE_BEGIN_INTEGER, ASCII_ZERO,
                         BENCODE_END_INTEGER, BENCODE_END_LIST_OR_DICT>> ->
              <<JSON_ARRAY_BEGIN, ASCII_ZERO, JSON_ARRAY_END>>
         [] OTHER ->
              <<JSON_OBJ_BEGIN>> \o key
                \o <<JSON_OBJ_FIELD_KEY_VALUE_SEPARATOR, ASCII_ZERO, JSON_OBJ_END>>

\* The JSON of the values that input is made of, one right after the other:
\* input is split into the values of TopLevelValues (none is a prefix of
\* another) and the line breaks around them.
RECURSIVE JsonBackToBack(_)
JsonBackToBack(input) ==
    IF input = << >> THEN << >>
    ELSE IF Head(input) = LINE_BREAK THEN JsonBackToBack(Tail(input))
    ELSE LET first == CHOOSE v \in TopLevelValues : HasPrefix(input, v)
         IN JsonOfTopLevelValue(first)
              \o JsonBackToBack(SubSeq(input, Len(first) + 1, Len(input)))

\* The number of values input is made of.
RECURSIVE NumberOfValues(_)
NumberOfValues(input) ==
    IF input = << >> THEN 0
    ELSE IF Head(input) = LINE_BREAK THEN NumberOfValues(Tail(input))
    ELSE LET first == CHOOSE v \in TopLevelValues : HasPrefix(input, v)
         IN 1 + NumberOfValues(SubSeq(input, Len(first) + 1, Len(input)))

\* C35: when several complete top-level values follow each other in one
\* input, with or without line breaks around them, the call returns Ok and
\* the output is the JSON of the values one right after the other, with
\* nothing between them; while the call runs, the output is a prefix of that.
C35_ValuesAreWrittenBackToBack ==
    /\ HasPrefix(JsonBackToBack(source.bytes), writer.output)
    /\ pc = "returned" =>
         /\ result = Ok
         /\ Delivered(writer) = JsonBackToBack(source.bytes)

\* "i0e", a line break, "le" and "1:e" were converted: the output is 0, []
\* and the string literal with nothing between them.
C35_Witness ==
    /\ pc = "returned"
    /\ result = Ok
    /\ source.bytes = <<BENCODE_BEGIN_INTEGER, ASCII_ZERO, BENCODE_END_INTEGER, LINE_BREAK,
                        BENCODE_BEGIN_LIST, BENCODE_END_LIST_OR_DICT,
                        49, END_OF_STRING_LENGTH_BYTE, 101>>
    /\ NumberOfValues(source.bytes) = 3
    /\ SubSeq(Delivered(writer), 1, 4) = <<ASCII_ZERO, JSON_ARRAY_BEGIN, JSON_ARRAY_END, 34>>


\* The step belongs to the lexer of an integer or of a string.
InsideALexer == pc \in {"integer", "length", "value"}

\* C36: a lexical error inside a token takes precedence over a structural
\* error about that token. An integer in dictionary-key position is reported
\* as ExpectedStringForDictKeyGot only when the lexer has read all of it and
\* it is well formed: terminated by 'e', with at least one digit, and without
\* leading zeros; until a string is read to its end nothing is written for it,
\* not even its separator; and a step that ends in a lexical error of an
\* integer or string writes nothing and leaves the stack alone.
C36_LexicalErrorsComeFirst ==
    [][/\ (pc = "integer" /\ KeyPosition /\ result'.kind = "ExpectedStringForDictKeyGot") =>
            /\ IntegerTokenArrives
            /\ Magnitude(integer.value) # << >>
            /\ ~(Len(Magnitude(integer.value)) > 1
                   /\ Head(Magnitude(integer.value)) = ASCII_ZERO)
       /\ (pc \in {"length", "value"} /\ ~StringTokenArrives) => WritesNothing
       /\ (InsideALexer /\ result'.kind \in LexicalErrors) =>
            /\ WritesNothing
            /\ stack' = stack]_vars


\* C37: the conversion is prefix-monotone. When an input A was converted and
\* an input B that begins with A is converted afterwards, the bytes written
\* for A, whether A ended in Ok or in an error, are a prefix of the bytes
\* written for B.
C37_OutputOfAPrefixIsAPrefixOfTheOutput ==
    pc = "returned" =>
      \A before \in previous : HasPrefix(Delivered(writer), before.output)

\* "l" was converted (an error, "[" written) and then "li0e" (another error,
\* "[0" written).
C37_Witness ==
    /\ pc = "returned"
    /\ source.bytes = <<BENCODE_BEGIN_LIST, BENCODE_BEGIN_INTEGER, ASCII_ZERO, BENCODE_END_INTEGER>>
    /\ previous = {[kind |-> "UnexpectedEndOfInputExpectingFirstListItemOrEnd",
                    output |-> <<JSON_ARRAY_BEGIN>>]}
    /\ result.kind = "UnexpectedEndOfInputExpectingNextListItem"
    /\ Delivered(writer) = <<JSON_ARRAY_BEGIN, ASCII_ZERO>>


\* The number of bytes that read_byte has handed to the tokenizer: the bytes
\* counted but for one that is only peeked.
BytesTaken(reader) == reader.input_byte_counter - Cardinality(reader.peeked_byte)

\* C38: for every finite input the conversion terminates with Ok or exactly
\* one error. parse returns at some time; it has returned exactly when it has
\* a result, and takes no step after that; every step that completes a token
\* (the token count goes up by one) takes at least one byte from the input
\* that no earlier step took, so that the tokens are never more than the bytes
\* taken, which are never more than the bytes the source delivered.
C38_EveryTokenTakesAByteAndParseReturns ==
    /\ <>(pc = "returned")
    /\ [](pc = "returned" <=> result # Running)
    /\ [][pc # "returned"]_vars
    /\ [][/\ BytesTaken(byte_reader') >= BytesTaken(byte_reader)
          /\ num_processed_tokens' # num_processed_tokens =>
               /\ num_processed_tokens' = num_processed_tokens + 1
               /\ BytesTaken(byte_reader') > BytesTaken(byte_reader)]_vars
    /\ [](/\ num_processed_tokens - 1 <= BytesTaken(byte_reader)
          /\ BytesTaken(byte_reader) <= byte_reader.input_byte_counter)

\* "l\nde": four tokens from four bytes, and parse has returned (an error,
\* the list is open).
C38_Witness ==
    /\ pc = "returned"
    /\ byte_reader.captured_bytes = <<BENCODE_BEGIN_LIST, LINE_BREAK, BENCODE_BEGIN_DICT,
                                      BENCODE_END_LIST_OR_DICT>>
    /\ num_processed_tokens = 5
    /\ BytesTaken(byte_reader) = 4
    /\ result.kind = "UnexpectedEndOfInputExpectingNextListItem"


\* limbs * 10 + carry for a number of any size kept as 16-bit limbs, the
\* lowest first; the carry out of the last limb is dropped.
RECURSIVE LimbsTimesTenPlus(_, _)
LimbsTimesTenPlus(limbs, carry) ==
    IF limbs = << >> THEN << >>
    ELSE LET low == (Head(limbs) * 10) + carry
         IN <<low % LimbBase>> \o LimbsTimesTenPlus(Tail(limbs), low \div LimbBase)

\* The decimal value of digits as eight 16-bit limbs (128 bits, enough for 38
\* digits).
RECURSIVE ExactDecimal(_)
ExactDecimal(digits) ==
    IF digits = << >> THEN <<0, 0, 0, 0, 0, 0, 0, 0>>
    ELSE LimbsTimesTenPlus(ExactDecimal(SubSeq(digits, 1, Len(digits) - 1)),
                           digits[Len(digits)] - ASCII_ZERO)

\* C39: the length the string lexer computes is the exact decimal value of
\* the length prefix, however many digits it has: the accumulation never
\* aborts and never wraps around, so that the number of value bytes the
\* lexer sets out to read is the declared length.
C39_LengthIsTheExactDecimalValue ==
    /\ result.kind # "PanicArithmeticOverflow"
    /\ pc \in {"length", "value"} =>
         length.number \o <<0, 0, 0, 0>> = ExactDecimal(length.bytes)
    /\ pc = "value" => value.length = length.number

\* "18446744073709551618:ee": the prefix declares 2^64 + 2 bytes, two bytes
\* follow, and the conversion returned Ok with the string "ee".
C39_WrappedLengthIsConverted ==
    /\ pc = "returned"
    /\ result = Ok
    /\ Len(source.bytes) = 23
    /\ Delivered(writer)
         = <<34>> \o TAG_STRING_OPEN \o <<101, 101>> \o TAG_STRING_CLOSE \o <<34>>

\* "18446744073709551616:": the multiplication by ten overflowed at the
\* twentieth digit and the conversion panicked.
C39_LengthOverflowPanics ==
    /\ pc = "returned"
    /\ result.kind = "PanicArithmeticOverflow"
    /\ byte_reader.input_byte_counter = 20

====
